---- MODULE Spec2Model ----
(***************************************************************************)
(* A model of the PERM scraper (perm_scraper.py): the extraction, the      *)
(* persistence to PostgreSQL and the command line; of the historical       *)
(* import (import_historical_data.py) and of the document transform        *)
(* (mongo_to_postgres.py), which write to the same tables.                 *)
(*                                                                         *)
(* Spec follows one extraction of one page; RunSpec follows successive     *)
(* invocations of the three programs against one database.  A table is     *)
(* the sequence of its rows, a SQL batch the sequence of its statements.   *)
(*                                                                         *)
(* Text is modelled as a sequence of tokens.  A token is a TLA+ string     *)
(* holding the characters it stands for, so that Len(token) is its length  *)
(* in characters; the only exception is PAD, a run of PadLen filler        *)
(* characters.  The page payload is the content of a JavaScript string     *)
(* literal, so a quote inside a payload is written backslash-quote (EQ);   *)
(* a plain quote (DQ) appears in text that has been unescaped, and in the  *)
(* payloads of a page build that does not escape.                          *)
(***************************************************************************)
EXTENDS Integers, Sequences, FiniteSets, TLC

VARIABLES
    program,        \* which program runs: "scraper" or "import"
    html,           \* the markup: a sequence of items [wrapped, text]
    pc,             \* position inside extract_perm_data / run_scraper
    target_block,   \* the fragment chosen by the block locator (<<>> = None)
    result,         \* the result dictionary, a function on its present keys
    daily_data,     \* the local daily_data: [bound |-> BOOLEAN, v |-> list]
    exc,            \* the exception raised by extract_perm_data, or "none"
    raw_array,      \* the local raw_array: [found |-> BOOLEAN, span |-> text]
    run_result,     \* what run_scraper returned: "none", "True", "False"
    output_error,   \* writing the output file raised
    df,             \* the PROCESSING_DAYS column given to the import
    hist,           \* the percentiles computed by the import (<<>> = none)
    config,         \* input source, SAVE_TO_POSTGRES and OUTPUT_FILE of the invocation
    db,             \* the tables: each the sequence of its rows
    save_result,    \* what save_to_postgres returned: "none", "True", "False", "skipped"
    record_date,    \* the local record_date of save_to_postgres
    output_file,    \* what this invocation wrote to the output file
    exit_code,      \* the exit code of the process (-1 while it runs)
    runs,           \* invocations so far
    prev,           \* the save of this invocation: its failure, the tables before it
    last_saved,     \* the result of the last committed save, if nothing was committed since
    last_write,     \* per table and natural key, the row written last
    fetch,          \* a call of fetch_html_from_url: its arguments, what it did and how it ended
    calls,          \* the calls this invocation has made, in order
    conn            \* what save_to_postgres did with its connection

\* the state of the tables and of the invocation around extract_perm_data
pvars == <<config, db, save_result, record_date, output_file, exit_code, runs, prev, last_saved,
           last_write, fetch, calls, conn>>

vars == <<program, html, pc, target_block, result, daily_data, raw_array, exc, run_result,
          output_error, df, hist, config, db, save_result, record_date, output_file, exit_code,
          runs, prev, last_saved, last_write, fetch, calls, conn>>

(***************************************************************************)
(* Tokens                                                                  *)
(***************************************************************************)
EQ  == "\\\""       \* backslash quote: an escaped quote of the payload
DQ  == "\""         \* a plain quote
EBS == "\\\\"       \* two backslashes: an escaped backslash of the payload
BS  == "\\"         \* one backslash
LE  == "<= "        \* stands for the two characters "less-or-equal sign, space"
PAD == "PAD"        \* a run of PadLen filler characters (no bracket, no quote)

\* lookahead windows of the two bracket scans, in characters
MonthWindow == 50000
DailyWindow == 20000

\* PAD is two characters short of the month window: "[" PAD "]" closes on the
\* last character the scan reads, "[" "x" PAD "]" one character too late.
PadLen == MonthWindow - 2

TokLen(t) == IF t = PAD THEN PadLen ELSE Len(t)

\* values a run of digits can take in the inputs
MaxNum == 3
Numbers == (0..MaxNum) \cup {5, 8, 24, 25, 42, 50, 64, 90, 99, 100}

NumTok(n) == ToString(n)

\* digit runs of the inputs: decimal numerals, and the two-digit fields of dates
DigitToks == {NumTok(n) : n \in Numbers} \cup {"08"}

\* int(<digits>)
NumVal == [t \in DigitToks |-> IF t = "08" THEN 8 ELSE CHOOSE n \in Numbers : NumTok(n) = t]

IsDigits(t) == t \in DigitToks

(***************************************************************************)
(* str.find, the `in` operator and regular-expression helpers on tokens.   *)
(* Indices are 1-based; 0 stands for Python's -1 (not found), so Python's  *)
(* `pos > 0` reads `idx > 1` here.                                         *)
(***************************************************************************)
\* the least member of a set of indices
MinOf(S) == CHOOSE i \in S : \A j \in 0..(i - 1) : j \notin S

MatchAt(s, pat, i) ==
    /\ i >= 1
    /\ i + Len(pat) - 1 <= Len(s)
    /\ \A k \in 1..Len(pat) : s[i + k - 1] = pat[k]

\* s.find(pat, from): index of the first occurrence at or after from, 0 if none
FindSeq(s, pat, from) ==
    LET I == {i \in from..Len(s) : MatchAt(s, pat, i)}
    IN  IF I = {} THEN 0 ELSE MinOf(I)

FindTok(s, t, from) == FindSeq(s, <<t>>, from)

Contains(s, t) == \E i \in 1..Len(s) : s[i] = t

RECURSIVE CharsIn(_, _, _)
\* number of characters of the tokens lo..hi
CharsIn(s, lo, hi) ==
    IF lo > hi THEN 0
    ELSE IF lo = hi THEN TokLen(s[lo])
    ELSE LET mid == (lo + hi) \div 2
         IN  CharsIn(s, lo, mid) + CharsIn(s, mid + 1, hi)

\* number of characters before token i
Offset(s, i) == CharsIn(s, 1, i - 1)

TextLen(s) == Offset(s, Len(s) + 1)

RECURSIVE Concat(_)
Concat(ss) == IF ss = <<>> THEN <<>> ELSE Head(ss) \o Concat(Tail(ss))

(***************************************************************************)
(* Block locator (perm_scraper.py lines 41-60)                             *)
(***************************************************************************)
MARKER == "submissionMonths"

\* re.findall of the push wrapper: the payloads of the wrapped items, in order
ScriptBlocks(h) ==
    LET W == SelectSeq(h, LAMBDA it : it.wrapped)
    IN  [i \in 1..Len(W) |-> W[i].text]

\* a variant of TargetIndex: the loop without its break
TargetIndexNoBreak(blocks) ==
    LET I == {i \in 1..Len(blocks) : Contains(blocks[i], MARKER)}
    IN  IF I = {} THEN 0 ELSE CHOOSE i \in I : \A j \in I : j <= i

\* a variant of TargetIndex that falls back to the first block
TargetIndexDefaultFirst(blocks) ==
    LET I == {i \in 1..Len(blocks) : Contains(blocks[i], MARKER)}
    IN  IF I = {} THEN (IF Len(blocks) > 0 THEN 1 ELSE 0) ELSE MinOf(I)

\* the loop of lines 50-55: index of the first block holding the marker, 0 if none
TargetIndex(blocks) ==
    LET I == {i \in 1..Len(blocks) : Contains(blocks[i], MARKER)}
    IN  IF I = {} THEN 0 ELSE MinOf(I)

(***************************************************************************)
(* Balanced-bracket scan (lines 75-91 and 197-213)                         *)
(***************************************************************************)
Min2(a, b) == IF a <= b THEN a ELSE b

BracketDelta(t) == IF t = "[" THEN 1 ELSE IF t = "]" THEN -1 ELSE 0

\* bracket_count once the tokens array_start..(i - 1) have been read
BracketCount(s, array_start, i) ==
    Cardinality({j \in array_start..(i - 1) : s[j] = "["})
    - Cardinality({j \in array_start..(i - 1) : s[j] = "]"})

RECURSIVE ClosingIndex(_, _, _)
\* the loop over the characters that change bracket_count: the index just after
\* the bracket that brings bracket_count (count before token i) to 0, or 0 when
\* the text ends first
ClosingIndex(s, i, count) ==
    LET B == {j \in i..Len(s) : s[j] \in {"[", "]"}}
    IN  IF B = {} THEN 0
        ELSE LET j == MinOf(B)
                 c == count + BracketDelta(s[j])
             IN  IF c = 0 THEN j + 1 ELSE ClosingIndex(s, j + 1, c)

\* the while loop: it reads token i while bracket_count > 0 and the offset of i
\* is below the limit, so it comes to the closing index z iff token z - 1 was
\* read; otherwise it leaves at the first token at or beyond the limit
ScanFrom(s, array_start, limit) ==
    LET z == ClosingIndex(s, array_start + 1, 1)
    IN  IF z > 0 /\ Offset(s, z - 1) < limit
        THEN [end |-> z, count |-> 0]
        ELSE LET end == MinOf({i \in (array_start + 1)..(Len(s) + 1) : Offset(s, i) >= limit})
             IN  [end |-> end, count |-> BracketCount(s, array_start, end)]

\* search_limit = min(array_start + window, len(target_block))
SearchLimit(s, array_start, window) ==
    Min2(Offset(s, array_start) + window, TextLen(s))

\* a variant of BalancedSpan that takes whatever the scan covered
BalancedSpanTruncating(s, array_start, window) ==
    LET r == ScanFrom(s, array_start, SearchLimit(s, array_start, window))
    IN  [found |-> TRUE, span |-> SubSeq(s, array_start, r.end - 1)]

\* scan from the "[" at array_start; found iff bracket_count came back to 0,
\* and then span = target_block[array_start:array_end]
BalancedSpan(s, array_start, window) ==
    LET r == ScanFrom(s, array_start, SearchLimit(s, array_start, window))
    IN  [found |-> r.count = 0, span |-> SubSeq(s, array_start, r.end - 1)]

(***************************************************************************)
(* Unescaping: .replace('\\"', '"').replace('\\\\', '\\')  (lines 99, 221) *)
(***************************************************************************)
Indices(s) == [i \in 1..Len(s) |-> i]

\* replace every backslash-quote by a quote
ReplaceEscQuote(s) ==
    LET kept == SelectSeq(Indices(s), LAMBDA i : ~(s[i] = BS /\ i < Len(s) /\ s[i + 1] = DQ))
    IN  [k \in 1..Len(kept) |-> IF s[kept[k]] = EQ THEN DQ ELSE s[kept[k]]]

\* replace every pair of backslashes by one backslash, pairing from the left
ReplaceEscBackslash(s) ==
    LET RunStart(i) == CHOOSE r \in 1..i :
                           /\ \A j \in r..i : s[j] = BS
                           /\ (r = 1 \/ s[r - 1] # BS)
        kept == SelectSeq(Indices(s), LAMBDA i : ~(s[i] = BS /\ (i - RunStart(i)) % 2 = 1))
    IN  [k \in 1..Len(kept) |-> IF s[kept[k]] = EBS THEN BS ELSE s[kept[k]]]

Unescape(s) == ReplaceEscBackslash(ReplaceEscQuote(s))

(***************************************************************************)
(* json.loads on tokens.  A JSON value is a tagged record [k, v]:          *)
(*   "str" (v: the tokens between the quotes), "num" (v: integer),         *)
(*   "bool", "null", "arr" (v: sequence of values) and                     *)
(*   "obj" (v: sequence of [key, val] in document order).                  *)
(***************************************************************************)
Str(toks)  == [k |-> "str",  v |-> toks]
Num(n)     == [k |-> "num",  v |-> n]
Bool(b)    == [k |-> "bool", v |-> b]
Null       == [k |-> "null", v |-> 0]
Arr(vals)  == [k |-> "arr",  v |-> vals]
Obj(pairs) == [k |-> "obj",  v |-> pairs]

ParseFail == [ok |-> FALSE, val |-> Null, next |-> 0]
ParseOk(val, next) == [ok |-> TRUE, val |-> val, next |-> next]

\* a JSON integer: digits without a leading zero
IsJsonInt(t) == IsDigits(t) /\ t # "08"

\* a string: from the quote at i to the next quote that no backslash escapes
ParseString(s, i) ==
    LET J == {j \in (i + 1)..Len(s) : s[j] = DQ /\ s[j - 1] # BS}
    IN  IF i > Len(s) \/ s[i] # DQ \/ J = {} THEN ParseFail
        ELSE LET j == MinOf(J)
                 body == SubSeq(s, i + 1, j - 1)
                 badEscape == \E n \in 1..Len(body) :
                                  /\ body[n] = BS
                                  /\ (n = Len(body) \/ body[n + 1] \notin {"n", DQ})
             IN  IF badEscape THEN ParseFail ELSE ParseOk(Str(body), j + 1)

RECURSIVE ParseValue(_, _), ParseElements(_, _, _), ParseMembers(_, _, _)

\* the elements of an array after "[" or ",": acc holds the values read so far
ParseElements(s, i, acc) ==
    LET r == ParseValue(s, i)
    IN  IF ~r.ok \/ r.next > Len(s) THEN ParseFail
        ELSE IF s[r.next] = "]" THEN ParseOk(Arr(Append(acc, r.val)), r.next + 1)
        ELSE IF s[r.next] = "," THEN ParseElements(s, r.next + 1, Append(acc, r.val))
        ELSE ParseFail

\* the members of an object after "{" or ","
ParseMembers(s, i, acc) ==
    LET key == ParseString(s, i)
    IN  IF ~key.ok \/ key.next > Len(s) \/ s[key.next] # ":" THEN ParseFail
        ELSE LET r == ParseValue(s, key.next + 1)
                 pair == [key |-> key.val.v, val |-> r.val]
             IN  IF ~r.ok \/ r.next > Len(s) THEN ParseFail
                 ELSE IF s[r.next] = "}" THEN ParseOk(Obj(Append(acc, pair)), r.next + 1)
                 ELSE IF s[r.next] = "," THEN ParseMembers(s, r.next + 1, Append(acc, pair))
                 ELSE ParseFail

ParseValue(s, i) ==
    IF i > Len(s) THEN ParseFail
    ELSE IF s[i] = "[" THEN
        IF i + 1 <= Len(s) /\ s[i + 1] = "]" THEN ParseOk(Arr(<<>>), i + 2)
        ELSE ParseElements(s, i + 1, <<>>)
    ELSE IF s[i] = "{" THEN
        IF i + 1 <= Len(s) /\ s[i + 1] = "}" THEN ParseOk(Obj(<<>>), i + 2)
        ELSE ParseMembers(s, i + 1, <<>>)
    ELSE IF s[i] = DQ THEN ParseString(s, i)
    ELSE IF s[i] = "true" THEN ParseOk(Bool(TRUE), i + 1)
    ELSE IF s[i] = "false" THEN ParseOk(Bool(FALSE), i + 1)
    ELSE IF s[i] = "null" THEN ParseOk(Null, i + 1)
    ELSE IF IsJsonInt(s[i]) THEN ParseOk(Num(NumVal[s[i]]), i + 1)
    ELSE IF s[i] = "-" /\ i + 1 <= Len(s) /\ IsJsonInt(s[i + 1])
         THEN ParseOk(Num(0 - NumVal[s[i + 1]]), i + 2)
    ELSE ParseFail

\* json.loads(text): the whole text must be one value
JsonLoads(s) ==
    LET r == ParseValue(s, 1)
    IN  IF r.ok /\ r.next = Len(s) + 1 THEN [ok |-> TRUE, val |-> r.val]
        ELSE [ok |-> FALSE, val |-> Null]

\* dict.get(key, default) on a parsed object (a later duplicate key wins)
Get(o, key, dflt) ==
    LET I == {i \in 1..Len(o.v) : o.v[i].key = key}
    IN  IF I = {} THEN dflt ELSE o.v[CHOOSE i \in I : \A j \in I : j <= i].val

Has(o, key) == \E i \in 1..Len(o.v) : o.v[i].key = key


(***************************************************************************)
(* Structured-array recoverer (lines 69-147)                               *)
(***************************************************************************)
\* one match of month_pattern (line 113) starting at i:
\*   "month":"([^"]+)","active":(true|false),"statuses":\[(.*?)\]
MonthMatchAt(s, i) ==
    LET j == FindTok(s, DQ, i + 5)          \* the quote closing the month string
        e == FindTok(s, "]", j + 13)        \* the first "]" after "statuses":[
    IN  IF /\ MatchAt(s, <<DQ, "month", DQ, ":", DQ>>, i)
           /\ j > i + 5
           /\ MatchAt(s, <<DQ, ",", DQ, "active", DQ, ":">>, j)
           /\ j + 6 <= Len(s) /\ s[j + 6] \in {"true", "false"}
           /\ MatchAt(s, <<",", DQ, "statuses", DQ, ":", "[">>, j + 7)
           /\ e > 0
        THEN [ok |-> TRUE, month |-> SubSeq(s, i + 5, j - 1), active |-> s[j + 6],
              statuses |-> SubSeq(s, j + 13, e - 1), next |-> e + 1]
        ELSE [ok |-> FALSE, month |-> <<>>, active |-> "", statuses |-> <<>>, next |-> 0]

\* one match of status_pattern (line 119) starting at i:
\*   "status":"([^"]+)","count":(\d+),"dailyChange":(\d+)
StatusMatchAt(s, i) ==
    LET j == FindTok(s, DQ, i + 5)
    IN  IF /\ MatchAt(s, <<DQ, "status", DQ, ":", DQ>>, i)
           /\ j > i + 5
           /\ MatchAt(s, <<DQ, ",", DQ, "count", DQ, ":">>, j)
           /\ j + 6 <= Len(s) /\ IsDigits(s[j + 6])
           /\ MatchAt(s, <<",", DQ, "dailyChange", DQ, ":">>, j + 7)
           /\ j + 12 <= Len(s) /\ IsDigits(s[j + 12])
        THEN [ok |-> TRUE, status |-> SubSeq(s, i + 5, j - 1), count |-> NumVal[s[j + 6]],
              dailyChange |-> NumVal[s[j + 12]], next |-> j + 13]
        ELSE [ok |-> FALSE, status |-> <<>>, count |-> 0, dailyChange |-> 0, next |-> 0]

RECURSIVE FindAllStatuses(_, _)
\* re.findall(status_pattern, statuses_str) turned into status records (lines 120-128):
\* the leftmost match at or after from, then the matches after its end
FindAllStatuses(s, from) ==
    LET I == {i \in from..Len(s) : StatusMatchAt(s, i).ok}
    IN  IF I = {} THEN <<>>
        ELSE LET m == StatusMatchAt(s, MinOf(I))
             IN  <<Obj(<<[key |-> <<"status">>, val |-> Str(m.status)],
                         [key |-> <<"count">>, val |-> Num(m.count)],
                         [key |-> <<"dailyChange">>, val |-> Num(m.dailyChange)]>>)>>
                 \o FindAllStatuses(s, m.next)

RECURSIVE FindAllMonths(_, _)
\* re.findall(month_pattern, cleaned) turned into month records (lines 114-134)
FindAllMonths(s, from) ==
    LET I == {i \in from..Len(s) : MonthMatchAt(s, i).ok}
    IN  IF I = {} THEN <<>>
        ELSE LET m == MonthMatchAt(s, MinOf(I))
             IN  <<Obj(<<[key |-> <<"month">>, val |-> Str(m.month)],
                         [key |-> <<"active">>, val |-> Bool(m.active = "true")],
                         [key |-> <<"statuses">>, val |-> Arr(FindAllStatuses(m.statuses, 1))]>>)>>
                 \o FindAllMonths(s, m.next)

\* processed_months of the regex fallback
RegexMonths(cleaned) == FindAllMonths(cleaned, 1)

\* lines 70-91: locate the key, the first "[" after it, and the balanced span
MonthSpan(tb) ==
    LET sub_pos == FindTok(tb, MARKER, 1)
        array_start == IF sub_pos > 1 THEN FindTok(tb, "[", sub_pos) ELSE 0
    IN  IF sub_pos > 1 /\ array_start > 1
        THEN BalancedSpan(tb, array_start, MonthWindow)
        ELSE [found |-> FALSE, span |-> <<>>]

\* a variant of MonthsStage without the regex fallback
MonthsStageNoFallback(tb) ==
    LET sp == MonthSpan(tb)
        js == JsonLoads(Unescape(sp.span))
    IN  IF ~sp.found THEN [path |-> "none", months |-> <<>>, span |-> <<>>]
        ELSE IF js.ok THEN [path |-> "json", months |-> js.val.v, span |-> sp.span]
        ELSE [path |-> "empty", months |-> <<>>, span |-> sp.span]

\* lines 99-144: what result["submissionMonths"] is set to, if it is set
\*   path: "none" (no span), "json", "regex" (fallback set it), "empty" (fallback found nothing)
MonthsStage(tb) ==
    LET sp == MonthSpan(tb)
        cleaned == Unescape(sp.span)
        js == JsonLoads(cleaned)
        rx == RegexMonths(cleaned)
    IN  IF ~sp.found THEN [path |-> "none", months |-> <<>>, span |-> <<>>]
        ELSE IF js.ok THEN [path |-> "json", months |-> js.val.v, span |-> sp.span]
        ELSE IF rx # <<>> THEN [path |-> "regex", months |-> rx, span |-> sp.span]
        ELSE [path |-> "empty", months |-> <<>>, span |-> sp.span]


(***************************************************************************)
(* Daily-series recoverer (lines 152-326)                                  *)
(***************************************************************************)
\* the literal heads of the anchor patterns l18_patterns[0], [2] and [3]; the
\* head of l18_patterns[1] holds an unescaped "$" (end of text) before more
\* literal characters, so that pattern matches no text
AnchorHead1 == <<"[", EQ, "$", EQ, ",", EQ, "$", "L18", EQ, ",", "null", ",", "{", EQ, "data", EQ, ":", "[">>
AnchorHead3 == <<"[", DQ, "$", DQ, ",", DQ, "$", "L18", DQ, ",", "null", ",", "{", DQ, "data", DQ, ":", "[">>
AnchorHead4 == <<"L18", DQ, ",", "null", ",", "{", DQ, "data", DQ, ":", "[">>

\* the common tail (\d+)(,\{.*?\})+\] matched from token k: digits, ",{",
\* and later a "}" directly followed by "]"; the value is the index of that "}"
\* (0 if the tail does not match)
DataTailEnd(s, k) ==
    LET J == {j \in (k + 3)..(Len(s) - 1) : s[j] = "}" /\ s[j + 1] = "]"}
    IN  IF /\ k + 2 <= Len(s) /\ IsDigits(s[k])
           /\ s[k + 1] = "," /\ s[k + 2] = "{"
           /\ J # {}
        THEN MinOf(J) ELSE 0

\* re.search(pattern, text) for a pattern head .. tail: start of the leftmost match, 0 if none
AnchorSearch(s, head) ==
    LET I == {i \in 1..Len(s) : MatchAt(s, head, i) /\ DataTailEnd(s, i + Len(head)) > 0}
    IN  IF I = {} THEN 0 ELSE MinOf(I)

\* the loop of lines 162-168: the first pattern that matches, and where
L18Search(tb) ==
    IF AnchorSearch(tb, AnchorHead1) > 0 THEN [pattern |-> 1, start |-> AnchorSearch(tb, AnchorHead1)]
    ELSE IF AnchorSearch(tb, AnchorHead3) > 0 THEN [pattern |-> 3, start |-> AnchorSearch(tb, AnchorHead3)]
    ELSE IF AnchorSearch(tb, AnchorHead4) > 0 THEN [pattern |-> 4, start |-> AnchorSearch(tb, AnchorHead4)]
    ELSE [pattern |-> 0, start |-> 0]

\* lines 176-182: the general search reaches the construction re.Match(), which
\* raises TypeError, exactly when it finds "$L18", "data" after it and a "[" after that
GeneralSearchHits(tb) ==
    LET l18_pos == FindSeq(tb, <<"$", "L18">>, 1)
        data_pos == IF l18_pos > 0 THEN FindTok(tb, "data", l18_pos) ELSE 0
        array_start == IF data_pos > 0 THEN FindTok(tb, "[", data_pos) ELSE 0
    IN  l18_pos > 1 /\ data_pos > l18_pos /\ array_start > 1

\* data_match of line 230: "data":\[(\d+)((?:,\{.*?\})+)\]
DataMatch(s) ==
    LET head == <<DQ, "data", DQ, ":", "[">>
        I == {i \in 1..Len(s) : MatchAt(s, head, i) /\ DataTailEnd(s, i + 5) > 0}
    IN  IF I = {} THEN [ok |-> FALSE, index |-> 0, objects |-> <<>>]
        ELSE LET i == MinOf(I)
             IN  [ok |-> TRUE, index |-> NumVal[s[i + 5]],
                  \* group 2 without its leading comma (lines 238-240)
                  objects |-> SubSeq(s, i + 7, DataTailEnd(s, i + 5))]

\* date_str.replace("\\n", " "): backslash-n becomes a space
ReplaceNewline(s) ==
    LET kept == SelectSeq(Indices(s), LAMBDA i : ~(s[i] = "n" /\ i > 1 /\ s[i - 1] = BS))
    IN  [k \in 1..Len(kept) |->
            IF s[kept[k]] = BS /\ kept[k] < Len(s) /\ s[kept[k] + 1] = "n" THEN " " ELSE s[kept[k]]]

RECURSIVE SumValues(_, _)
\* the sum over re.findall(r'"(\d+)":(\d+)', values_str) of the second group (lines 253-262)
SumValues(s, from) ==
    LET I == {i \in from..(Len(s) - 4) :
                 /\ s[i] = DQ /\ IsDigits(s[i + 1]) /\ s[i + 2] = DQ
                 /\ s[i + 3] = ":" /\ IsDigits(s[i + 4])}
    IN  IF I = {} THEN 0
        ELSE NumVal[s[MinOf(I) + 4]] + SumValues(s, MinOf(I) + 5)

\* a variant of DayMatchAt whose label group is ([^"]*): it accepts an empty label
DayMatchAtAnyLabel(s, i) ==
    LET j == FindTok(s, DQ, i + 6)
        e == FindTok(s, "}", j + 1)
    IN  IF /\ MatchAt(s, <<"{", DQ, "0", DQ, ":", DQ>>, i)
           /\ j >= i + 6
           /\ e > 0
        THEN [ok |-> TRUE, date |-> SubSeq(s, i + 6, j - 1),
              values |-> SubSeq(s, j + 1, e - 1), next |-> e + 1]
        ELSE [ok |-> FALSE, date |-> <<>>, values |-> <<>>, next |-> 0]

\* one match of day_pattern (line 244) starting at i:  \{"0":"([^"]+)"(.*?)\}
DayMatchAt(s, i) ==
    LET j == FindTok(s, DQ, i + 6)          \* the quote closing the date label
        e == FindTok(s, "}", j + 1)
    IN  IF /\ MatchAt(s, <<"{", DQ, "0", DQ, ":", DQ>>, i)
           /\ j > i + 6
           /\ e > 0
        THEN [ok |-> TRUE, date |-> SubSeq(s, i + 6, j - 1),
              values |-> SubSeq(s, j + 1, e - 1), next |-> e + 1]
        ELSE [ok |-> FALSE, date |-> <<>>, values |-> <<>>, next |-> 0]

RECURSIVE FindAllDays(_, _)
\* lines 245-268: every day object becomes {"date": clean_date, "total": total}
FindAllDays(s, from) ==
    LET I == {i \in from..Len(s) : DayMatchAt(s, i).ok}
    IN  IF I = {} THEN <<>>
        ELSE LET m == DayMatchAt(s, MinOf(I))
             IN  <<[date |-> ReplaceNewline(m.date), total |-> SumValues(m.values, 1)]>>
                 \o FindAllDays(s, m.next)

\* lines 159-326 as a whole.  outcome:
\*   "typeerror"  the general search constructs re.Match() and raises
\*   "set"        dailyProgress and defaultPanIndex are set, daily_data is bound
\*   "unset"      nothing is set and daily_data stays unbound
DailyStage(tb) ==
    LET m == L18Search(tb)
        array_start == FindTok(tb, "[", m.start)
        sp == BalancedSpan(tb, array_start, DailyWindow)
        normalized == Unescape(Unescape(sp.span))
        dm == DataMatch(normalized)
        none == [found |-> FALSE, span |-> <<>>]
    IN  IF m.pattern = 0
        THEN [outcome |-> IF GeneralSearchHits(tb) THEN "typeerror" ELSE "unset",
              index |-> 0, days |-> <<>>, raw |-> none]
        ELSE IF array_start > 1 /\ sp.found /\ dm.ok
        THEN [outcome |-> "set", index |-> dm.index, days |-> FindAllDays(dm.objects, 1), raw |-> sp]
        ELSE [outcome |-> "unset", index |-> 0, days |-> <<>>,
              raw |-> IF array_start > 1 /\ sp.found THEN sp ELSE none]

(***************************************************************************)
(* Percentile extractor (lines 328-341)                                    *)
(***************************************************************************)
\* index of the first  \"<= \"(\d+)  at or after from (the index of its digits), 0 if none
FindBound(s, from) ==
    LET I == {i \in from..(Len(s) - 3) : MatchAt(s, <<EQ, LE, EQ>>, i) /\ IsDigits(s[i + 3])}
    IN  IF I = {} THEN 0 ELSE MinOf(I) + 3

\* index just after the first \"<label>\" at or after from, 0 if none
FindLabel(s, label, from) ==
    LET i == FindSeq(s, <<EQ, label, EQ>>, from)
    IN  IF i = 0 THEN 0 ELSE i + 3

\* re.search(percentiles_pattern, target_block): every .*? stops at the first
\* place from which the rest of the pattern can still match, which is the first
\* occurrence of what follows it
PercentilesMatch(s) ==
    LET a  == FindLabel(s, "30%", 1)
        b1 == IF a  > 0 THEN FindBound(s, a) ELSE 0
        c  == IF b1 > 0 THEN FindLabel(s, "50%", b1 + 1) ELSE 0
        b2 == IF c  > 0 THEN FindBound(s, c) ELSE 0
        d  == IF b2 > 0 THEN FindLabel(s, "80%", b2 + 1) ELSE 0
        b3 == IF d  > 0 THEN FindBound(s, d) ELSE 0
    IN  IF b3 > 0
        THEN [ok |-> TRUE, p30 |-> NumVal[s[b1]], p50 |-> NumVal[s[b2]], p80 |-> NumVal[s[b3]]]
        ELSE [ok |-> FALSE, p30 |-> 0, p50 |-> 0, p80 |-> 0]

\* the dict of the three percentiles under the keys the code writes
PercentileRecord(a, b, c) ==
    ("30_percentile" :> a) @@ ("50_percentile" :> b) @@ ("80_percentile" :> c)

\* a variant of WithProcessingTimes that fills in zeros when nothing matched
WithProcessingTimesDefaultZero(res, m) ==
    ("processingTimes" :> PercentileRecord(m.p30, m.p50, m.p80)) @@ res

\* lines 332-337: the key is added only when the pattern matched
WithProcessingTimes(res, m) ==
    IF m.ok
    THEN ("processingTimes" :> PercentileRecord(m.p30, m.p50, m.p80)) @@ res
    ELSE res


(***************************************************************************)
(* Summary aggregator (lines 343-384)                                      *)
(***************************************************************************)
IsNumber(v) == v.k \in {"num", "bool"}
AsInt(v) == IF v.k = "num" THEN v.v ELSE IF v.v THEN 1 ELSE 0

\* month.get("statuses", []) of a month record
StatusesOf(month) == Get(month, <<"statuses">>, Arr(<<>>))

\* the loops of lines 351-366 run to their end without an exception
SummaryComputable(months) ==
    \A i \in 1..Len(months) :
        /\ months[i].k = "obj"
        /\ StatusesOf(months[i]).k = "arr"
        /\ \A j \in 1..Len(StatusesOf(months[i]).v) :
              LET st == StatusesOf(months[i]).v[j]
              IN  /\ st.k = "obj"
                  /\ IsNumber(Get(st, <<"count">>, Num(0)))
                  /\ IsNumber(Get(st, <<"dailyChange">>, Num(0)))

\* all status records of all months, in loop order
AllStatuses(months) == Concat([i \in 1..Len(months) |-> StatusesOf(months[i]).v])

RECURSIVE SumSeq(_)
SumSeq(ns) == IF ns = <<>> THEN 0 ELSE Head(ns) + SumSeq(Tail(ns))

CountOf(st) == AsInt(Get(st, <<"count">>, Num(0)))
ChangeOf(st) == AsInt(Get(st, <<"dailyChange">>, Num(0)))
StatusIs(st, names) ==
    LET v == Get(st, <<"status">>, Null)
    IN  v.k = "str" /\ v.v \in names

\* a variant of PendingPercentage that truncates where the code rounds
PendingPercentageTruncated(pending, total) ==
    IF total > 0 THEN (pending * 10000) \div total ELSE 0

\* round(pending / total * 100, 2) in hundredths, ties to even
PendingPercentage(pending, total) ==
    IF total > 0
    THEN LET q == (pending * 10000) \div total
             r == (pending * 10000) % total
         IN  IF 2 * r > total THEN q + 1
             ELSE IF 2 * r = total THEN q + (q % 2)
             ELSE q
    ELSE 0

PendingCount(st) == IF StatusIs(st, {<<"ANALYST REVIEW">>}) THEN CountOf(st) ELSE 0

\* a variant of CompletedChange that also counts the changes that are not positive
CompletedChangeAnySign(st) ==
    IF StatusIs(st, {<<"CERTIFIED">>, <<"DENIED">>, <<"WITHDRAWN">>}) THEN ChangeOf(st) ELSE 0

CompletedChange(st) ==
    IF StatusIs(st, {<<"CERTIFIED">>, <<"DENIED">>, <<"WITHDRAWN">>}) /\ ChangeOf(st) > 0
    THEN ChangeOf(st) ELSE 0

\* result["summary"] of lines 368-374 for the statuses sts of all months
SummaryOf(sts) ==
    LET total == SumSeq([i \in 1..Len(sts) |-> CountOf(sts[i])])
        pending == SumSeq([i \in 1..Len(sts) |-> PendingCount(sts[i])])
    IN  [total_applications |-> total,
         pending_applications |-> pending,
         pending_percentage |-> PendingPercentage(pending, total),
         changes_today |-> SumSeq([i \in 1..Len(sts) |-> ChangeOf(sts[i])]),
         completed_today |-> SumSeq([i \in 1..Len(sts) |-> CompletedChange(sts[i])])]

Summary(months) == SummaryOf(AllStatuses(months))

(***************************************************************************)
(* Date normalizer inside extract_perm_data (lines 386-422)                *)
(***************************************************************************)
TODAY == " (today)"
\* the word today after a label, without the parentheses
TodayBare == " today"

month_num_map ==
    ("Jan" :> 1) @@ ("Feb" :> 2) @@ ("Mar" :> 3) @@ ("Apr" :> 4) @@ ("May" :> 5) @@ ("Jun" :> 6) @@
    ("Jul" :> 7) @@ ("Aug" :> 8) @@ ("Sep" :> 9) @@ ("Oct" :> 10) @@ ("Nov" :> 11) @@ ("Dec" :> 12)

RECURSIVE SplitOn(_, _)
\* str.split(sep): the pieces between the separators
SplitOn(s, sep) ==
    LET i == FindTok(s, sep, 1)
    IN  IF i = 0 THEN <<s>>
        ELSE <<SubSeq(s, 1, i - 1)>> \o SplitOn(SubSeq(s, i + 1, Len(s)), sep)

RemoveTok(s, t) == SelectSeq(s, LAMBDA x : x # t)

NoDate == [kind |-> "none", text |-> <<>>, year |-> <<>>, month |-> 0, day |-> 0]
TextDate(toks) == [kind |-> "text", text |-> toks, year |-> <<>>, month |-> 0, day |-> 0]

\* lines 398-402 on already split date_parts: the exception raised, or the date
\* f"{year}-{month:02d}-{day:02d}" kept as its three fields
DateFromParts(parts) ==
    IF Len(parts) < 3 THEN [exc |-> "IndexError", date |-> NoDate]
    ELSE IF ~(Len(parts[1]) = 1 /\ parts[1][1] \in DOMAIN month_num_map)
         \* the default '01' is a str, and the format code 02d rejects it
         THEN [exc |-> "ValueError", date |-> NoDate]
    ELSE IF ~(Len(parts[2]) = 1 /\ IsDigits(parts[2][1]))
         THEN [exc |-> "ValueError", date |-> NoDate]
    ELSE [exc |-> "none",
          date |-> [kind |-> "date", text |-> <<>>, year |-> <<"20">> \o parts[3],
                    month |-> month_num_map[parts[1][1]], day |-> NumVal[parts[2][1]]]]

RECURSIVE TodayLoop(_, _)
\* the loop of lines 391-407: acc is today_date so far
TodayLoop(days, acc) ==
    IF days = <<>> THEN [exc |-> "none", date |-> acc]
    ELSE IF Contains(Head(days).date, TODAY)
         THEN LET r == DateFromParts(SplitOn(RemoveTok(Head(days).date, TODAY), "/"))
              IN  IF r.exc # "none" THEN r ELSE TodayLoop(Tail(days), r.date)
    ELSE TodayLoop(Tail(days), acc)

\* lines 387-422: the value stored under todayDate, or the exception raised
TodayStage(days) ==
    LET r == TodayLoop(days, NoDate)
        first_date == days[Len(days)].date
    IN  IF r.exc # "none" \/ r.date.kind # "none" \/ days = <<>> THEN r
        \* lines 410-419: 'today' occurs in the last label
        ELSE IF Contains(first_date, TODAY)
             THEN DateFromParts(SplitOn(SubSeq(first_date, 1, FindTok(first_date, TODAY, 1) - 1), "/"))
        \* without a parenthesis split('(')[0] is the whole label
        ELSE IF Contains(first_date, TodayBare)
             THEN DateFromParts(SplitOn(first_date, "/"))
        ELSE r

\* line 63: todayDate":"([^"]+)" on the raw fragment
PayloadTodayDate(tb) ==
    LET i == FindSeq(tb, <<"todayDate", DQ, ":", DQ>>, 1)
        j == FindTok(tb, DQ, i + 4)
    IN  IF i > 0 /\ j > i + 4 THEN TextDate(SubSeq(tb, i + 4, j - 1)) ELSE NoDate

(***************************************************************************)
(* calculate_percentiles of the historical import                          *)
(***************************************************************************)
RECURSIVE Insert(_, _)
Insert(x, sorted) ==
    IF sorted = <<>> THEN <<x>>
    ELSE IF x <= Head(sorted) THEN <<x>> \o sorted
    ELSE <<Head(sorted)>> \o Insert(x, Tail(sorted))

RECURSIVE Sorted(_)
Sorted(xs) == IF xs = <<>> THEN <<>> ELSE Insert(Head(xs), Sorted(Tail(xs)))

\* int(np.percentile(column, p)): linear interpolation between the two nearest
\* ranks of the sorted column, truncated (the column holds non-negative days)
Percentile(column, p) ==
    LET a == Sorted(column)
        h == (Len(a) - 1) * p               \* rank, in hundredths
        lo == (h \div 100) + 1
        hi == IF lo < Len(a) THEN lo + 1 ELSE lo
    IN  (a[lo] * 100 + (h % 100) * (a[hi] - a[lo])) \div 100

calculate_percentiles(column) ==
    PercentileRecord(Percentile(column, 30), Percentile(column, 50), Percentile(column, 80))


(***************************************************************************)
(* Dates of the persistence adapter.  A calendar date is [year, month,     *)
(* day]; a table is the sequence of its rows in insertion order.           *)
(***************************************************************************)
Date(y, m, d) == [year |-> y, month |-> m, day |-> d]

IsLeap(y) == (y % 4 = 0 /\ y % 100 # 0) \/ y % 400 = 0

DaysInMonth(y, m) ==
    IF m = 2 THEN (IF IsLeap(y) THEN 29 ELSE 28)
    ELSE IF m \in {4, 6, 9, 11} THEN 30 ELSE 31

\* the dates datetime and the DATE columns accept
ValidDate(y, m, d) == y \in 1..9999 /\ m \in 1..12 /\ d \in 1..DaysInMonth(y, m)

\* date_str.split(' ')[0]: the characters before the first space (the marker
\* " (today)" starts with one)
FirstWord(s) ==
    LET I == {i \in 1..Len(s) : s[i] \in {" ", TODAY, TodayBare}}
    IN  IF I = {} THEN s ELSE SubSeq(s, 1, MinOf(I) - 1)

\* the month names %B reads
full_month_map ==
    ("January" :> 1) @@ ("February" :> 2) @@ ("March" :> 3) @@ ("April" :> 4) @@ ("May" :> 5) @@
    ("June" :> 6) @@ ("July" :> 7) @@ ("August" :> 8) @@ ("September" :> 9) @@ ("October" :> 10) @@
    ("November" :> 11) @@ ("December" :> 12)

\* the formats tried on a daily label (lines 669 and 674): %b or %B, %y or %Y
DateFormats == <<[month |-> "b", year |-> "y"], [month |-> "b", year |-> "Y"],
                 [month |-> "B", year |-> "y"], [month |-> "B", year |-> "Y"]>>

NoParse == [ok |-> FALSE, date |-> Date(0, 0, 0)]

\* a variant of Strptime that counts the months from zero
StrptimeMonthFromZero(s, fmt) ==
    IF /\ Len(s) = 5 /\ s[2] = "/" /\ s[4] = "/"
       /\ s[1] \in DOMAIN (IF fmt.month = "b" THEN month_num_map ELSE full_month_map)
       /\ IsDigits(s[3]) /\ Len(s[3]) \in 1..2
       /\ IsDigits(s[5]) /\ Len(s[5]) = (IF fmt.year = "y" THEN 2 ELSE 4)
    THEN LET m == (IF fmt.month = "b" THEN month_num_map[s[1]] ELSE full_month_map[s[1]]) - 1
             v == NumVal[s[5]]
             y == IF fmt.year = "Y" THEN v ELSE IF v < 69 THEN 2000 + v ELSE 1900 + v
             d == NumVal[s[3]]
         IN  IF ValidDate(y, m, d) THEN [ok |-> TRUE, date |-> Date(y, m, d)] ELSE NoParse
    ELSE NoParse

\* datetime.strptime(date_str, fmt).date(): %d reads one or two digits, %y two
\* digits (00-68 are 2000-2068, 69-99 are 1969-1999), %Y four digits
Strptime(s, fmt) ==
    IF /\ Len(s) = 5 /\ s[2] = "/" /\ s[4] = "/"
       /\ s[1] \in DOMAIN (IF fmt.month = "b" THEN month_num_map ELSE full_month_map)
       /\ IsDigits(s[3]) /\ Len(s[3]) \in 1..2
       /\ IsDigits(s[5]) /\ Len(s[5]) = (IF fmt.year = "y" THEN 2 ELSE 4)
    THEN LET m == IF fmt.month = "b" THEN month_num_map[s[1]] ELSE full_month_map[s[1]]
             v == NumVal[s[5]]
             y == IF fmt.year = "Y" THEN v ELSE IF v < 69 THEN 2000 + v ELSE 1900 + v
             d == NumVal[s[3]]
         IN  IF ValidDate(y, m, d) THEN [ok |-> TRUE, date |-> Date(y, m, d)] ELSE NoParse
    ELSE NoParse

\* lines 665-686: the date of a daily label, if one of the formats reads it
ParseDailyDate(date_str) ==
    LET s == FirstWord(date_str)
        F == {k \in 1..Len(DateFormats) : Strptime(s, DateFormats[k]).ok}
    IN  IF F = {} THEN NoParse ELSE Strptime(s, DateFormats[MinOf(F)])

day_name == <<"Sunday", "Monday", "Tuesday", "Wednesday", "Thursday", "Friday", "Saturday">>

\* date_obj.strftime('%A') (line 689): the weekday of a Gregorian date
DayOfWeek(date) ==
    LET t == <<0, 3, 2, 5, 0, 3, 5, 1, 4, 6, 2, 4>>
        y == IF date.month < 3 THEN date.year - 1 ELSE date.year
    IN  day_name[((y + (y \div 4) - (y \div 100) + (y \div 400) + t[date.month] + date.day) % 7) + 1]

RECURSIVE DailyRecords(_)
\* lines 660-705: the rows built from dailyProgress; a label that no format
\* reads is skipped
DailyRecords(daily_progress) ==
    IF daily_progress = <<>> THEN <<>>
    ELSE LET p == ParseDailyDate(Head(daily_progress).date)
         IN  (IF p.ok
              THEN <<[date |-> p.date, day_of_week |-> DayOfWeek(p.date),
                      total_applications |-> Head(daily_progress).total]>>
              ELSE <<>>)
             \o DailyRecords(Tail(daily_progress))

\* month_str.split() for the month labels of the inputs
MonthWords == ("Mar 2025" :> <<"Mar", "2025">>) @@ ("Feb 2025" :> <<"Feb", "2025">>)
\* int(parts[1])
YearVal == ("2025" :> 2025)

\* lines 712-719 of one month record: its name and year, if it has both
MonthParts(month_data) ==
    LET month_str == IF month_data.k = "obj" THEN Get(month_data, <<"month">>, Str(<<>>)) ELSE Null
    IN  IF /\ month_str.k = "str" /\ Len(month_str.v) = 1
           /\ month_str.v[1] \in DOMAIN MonthWords
           /\ MonthWords[month_str.v[1]][2] \in DOMAIN YearVal
        THEN [ok |-> TRUE, month_name |-> MonthWords[month_str.v[1]][1],
              year |-> YearVal[MonthWords[month_str.v[1]][2]]]
        ELSE [ok |-> FALSE, month_name |-> "", year |-> 0]

\* lines 722-732: the rows of one month; the loop stops at a status that is
\* not an object (the rows before it stay)
StatusRecords(month_data, parts) ==
    LET sts == StatusesOf(month_data)
        list == IF sts.k = "arr" THEN sts.v ELSE <<>>
        Bad == {j \in 1..Len(list) : list[j].k # "obj"}
        n == IF Bad = {} THEN Len(list) ELSE MinOf(Bad) - 1
    IN  [j \in 1..n |->
            [month |-> parts.month_name, year |-> parts.year,
             status |-> Get(list[j], <<"status">>, Str(<<>>)),
             count |-> Get(list[j], <<"count">>, Num(0)),
             daily_change |-> Get(list[j], <<"dailyChange">>, Num(0)),
             is_active |-> Get(month_data, <<"active">>, Bool(FALSE))]]

\* lines 707-735: the rows built from submissionMonths
MonthlyRecords(monthly_data) ==
    Concat([i \in 1..Len(monthly_data) |->
               IF MonthParts(monthly_data[i]).ok
               THEN StatusRecords(monthly_data[i], MonthParts(monthly_data[i]))
               ELSE <<>>])

\* the text of a stored todayDate read as a DATE parameter:
\*   "null" (None), "date", or "invalid" (the server rejects the text)
IsoDates == ("2025-03-12" :> Date(2025, 3, 12))

SqlDate(d) ==
    IF d.kind = "none" THEN [kind |-> "null", date |-> Date(0, 0, 0)]
    ELSE IF d.kind = "text"
         THEN IF Len(d.text) = 1 /\ d.text[1] \in DOMAIN IsoDates
              THEN [kind |-> "date", date |-> IsoDates[d.text[1]]]
              ELSE [kind |-> "invalid", date |-> Date(0, 0, 0)]
    ELSE IF /\ Len(d.year) = 2 /\ IsDigits(d.year[2]) /\ Len(d.year[2]) = 2
            /\ ValidDate(2000 + NumVal[d.year[2]], d.month, d.day)
         THEN [kind |-> "date", date |-> Date(2000 + NumVal[d.year[2]], d.month, d.day)]
    ELSE [kind |-> "invalid", date |-> Date(0, 0, 0)]

\* lines 636-650 on the last label: the derived record date, None when a
\* field is missing or is not a number; an unknown month counts as January
DerivedDate(date_str) ==
    LET parts == SplitOn(FirstWord(RemoveTok(date_str, TODAY)), "/")
    IN  IF /\ Len(parts) >= 3
           /\ Len(parts[2]) = 1 /\ IsDigits(parts[2][1])
           /\ Len(parts[3]) = 1 /\ IsDigits(parts[3][1])
        THEN [kind |-> "date", text |-> <<>>, year |-> <<"20">> \o parts[3],
              month |-> IF Len(parts[1]) = 1 /\ parts[1][1] \in DOMAIN month_num_map
                        THEN month_num_map[parts[1][1]] ELSE 1,
              day |-> NumVal[parts[2][1]]]
        ELSE NoDate

\* a variant of RecordDate that derives the date from the first daily entry
RecordDateFromFirst(data) ==
    LET given == IF "todayDate" \in DOMAIN data THEN data["todayDate"] ELSE NoDate
    IN  IF given.kind = "none" /\ "dailyProgress" \in DOMAIN data /\ data["dailyProgress"] # <<>>
        THEN DerivedDate(data["dailyProgress"][1].date)
        ELSE given

\* lines 623-650: the record date of a result
RecordDate(data) ==
    LET given == IF "todayDate" \in DOMAIN data THEN data["todayDate"] ELSE NoDate
    IN  IF given.kind = "none" /\ "dailyProgress" \in DOMAIN data /\ data["dailyProgress"] # <<>>
        THEN DerivedDate(data["dailyProgress"][Len(data["dailyProgress"])].date)
        ELSE given

(***************************************************************************)
(* The tables and the statements of a batch                                *)
(***************************************************************************)
EmptyTables ==
    [daily_progress |-> <<>>, monthly_status |-> <<>>, summary_stats |-> <<>>,
     processing_times |-> <<>>, historical_processing_times |-> <<>>]

\* the natural key of a row of each table
KeyOf(table, row) ==
    CASE table = "daily_progress" -> <<row.date>>
      [] table = "monthly_status" -> <<row.month, row.year, row.status>>
      [] table = "summary_stats" -> <<row.record_date>>
      [] table = "processing_times" -> <<row.record_date>>
      [] table = "historical_processing_times" -> <<row.reference_date>>

\* DO UPDATE SET ...: the stored row after a conflict; daily_progress keeps
\* its day_of_week, the other tables take every data column of the new row
Updated(table, old, new) ==
    IF table = "daily_progress"
    THEN [old EXCEPT !.total_applications = new.total_applications]
    ELSE new

\* a variant of Upsert without the ON CONFLICT clause and without the
\* uniqueness constraint: every statement adds a row
UpsertAppending(rows, table, row) == Append(rows, row)

\* INSERT ... ON CONFLICT (key) DO UPDATE
Upsert(rows, table, row) ==
    IF \E i \in 1..Len(rows) : KeyOf(table, rows[i]) = KeyOf(table, row)
    THEN [i \in 1..Len(rows) |->
             IF KeyOf(table, rows[i]) = KeyOf(table, row) THEN Updated(table, rows[i], row)
             ELSE rows[i]]
    ELSE Append(rows, row)

\* a value given for an INT column: a number, a NULL, or a value the server rejects
SqlInt(v) == v.k = "num" \/ (v.k = "str" /\ Len(v.v) = 1 /\ IsJsonInt(v.v[1]))

\* the statement violates a column type or a NOT NULL constraint
Rejected(stmt) ==
    CASE stmt.table = "monthly_status" ->
             ~SqlInt(stmt.row.count) \/ ~(SqlInt(stmt.row.daily_change) \/ stmt.row.daily_change = Null)
      [] stmt.table \in {"summary_stats", "processing_times"} -> stmt.date.kind # "date"
      [] OTHER -> FALSE

\* one statement: table, row, how it is written ("upsert" or "insert"), and
\* for the two tables keyed by record date the date parameter as given
Statement(table, row, how, date) == [table |-> table, row |-> row, how |-> how, date |-> date]

NoParam == [kind |-> "date", date |-> Date(0, 0, 0)]

\* lines 737-802: the statements of save_to_postgres for a result, in order;
\* rd is the record date as the server reads it
SaveStatements(data, rd) ==
    LET daily_progress == IF "dailyProgress" \in DOMAIN data THEN data["dailyProgress"] ELSE <<>>
        monthly_data == IF "submissionMonths" \in DOMAIN data THEN data["submissionMonths"] ELSE <<>>
        daily_records == DailyRecords(daily_progress)
        monthly_records == MonthlyRecords(monthly_data)
    IN  [i \in 1..Len(daily_records) |-> Statement("daily_progress", daily_records[i], "upsert", NoParam)]
        \o [i \in 1..Len(monthly_records) |->
               Statement("monthly_status", monthly_records[i], "upsert", NoParam)]
        \o (IF "summary" \in DOMAIN data
            THEN <<Statement("summary_stats", [record_date |-> rd.date] @@ data["summary"], "upsert", rd)>>
            ELSE <<>>)
        \o (IF "processingTimes" \in DOMAIN data
            THEN <<Statement("processing_times",
                             [record_date |-> rd.date, percentile_30 |-> data["processingTimes"]["30_percentile"],
                              percentile_50 |-> data["processingTimes"]["50_percentile"],
                              percentile_80 |-> data["processingTimes"]["80_percentile"]], "upsert", rd)>>
            ELSE <<>>)

RECURSIVE Execute(_, _)
\* the tables after the statements have run inside the transaction
Execute(tables, stmts) ==
    IF stmts = <<>> THEN tables
    ELSE LET s == Head(stmts)
             rows == IF s.how = "upsert" THEN Upsert(tables[s.table], s.table, s.row)
                     ELSE Append(tables[s.table], s.row)
         IN  Execute([tables EXCEPT ![s.table] = rows], Tail(stmts))

\* the first statement that raises: the earliest of the statement the server
\* rejects and the statement at which the connection fails (0: none does);
\* Len(stmts) + 1 stands for the commit
FirstFailure(stmts, fail_at) ==
    LET R == {i \in 1..Len(stmts) : Rejected(stmts[i])} \cup (IF fail_at > 0 THEN {fail_at} ELSE {})
    IN  IF R = {} THEN 0 ELSE MinOf(R)

\* what the batch calls on the connection when its k-th call raises (0: none
\* does; Len(stmts) + 1: the commit): the calls made, the last one raising,
\* and the commit or the rollback of the handler
BatchCalls(stmts, k) ==
    IF k = 0 THEN [i \in 1..Len(stmts) |-> "execute"] \o <<"commit">>
    ELSE IF k > Len(stmts) THEN [i \in 1..Len(stmts) |-> "execute"] \o <<"commit", "rollback">>
    ELSE [i \in 1..k |-> "execute"] \o <<"rollback">>

\* a variant of Transaction that keeps what ran before the failure
TransactionAutocommit(tables, stmts, fail_at) ==
    LET k == FirstFailure(stmts, fail_at)
    IN  IF k = 0 THEN [ok |-> TRUE, tables |-> Execute(tables, stmts), calls |-> BatchCalls(stmts, k)]
        ELSE [ok |-> FALSE, tables |-> Execute(tables, SubSeq(stmts, 1, k - 1)),
              calls |-> BatchCalls(stmts, k)]

\* the try block of the batch: commit when every statement ran, else rollback
Transaction(tables, stmts, fail_at) ==
    LET k == FirstFailure(stmts, fail_at)
    IN  IF k = 0 THEN [ok |-> TRUE, tables |-> Execute(tables, stmts), calls |-> BatchCalls(stmts, k)]
        ELSE [ok |-> FALSE, tables |-> tables, calls |-> BatchCalls(stmts, k)]

\* a variant of FinallyClose that closes only what was committed
FinallyCloseCommitted(cs) == IF Contains(cs, "rollback") THEN cs ELSE cs \o <<"close">>

\* lines 814-816: the finally block closes the connection
FinallyClose(cs) == cs \o <<"close">>

\* save_to_postgres(data) (lines 604-816) on the tables, for the outcome env
\* of the connection ("ok", "connect", "initialize", "execute" at fail_at):
\* what it returns and the tables afterwards
SaveToPostgres(tables, data, env, fail_at) ==
    LET rd == SqlDate(RecordDate(data))
        batch == Transaction(tables, SaveStatements(data, rd), IF env = "execute" THEN fail_at ELSE 0)
    IN  \* lines 606-609: no connection, nothing to close
        IF env = "connect" THEN [ok |-> FALSE, tables |-> tables, calls |-> <<>>]
        \* lines 613-615: initialize_postgres_tables has rolled back and returned False
        ELSE IF env = "initialize"
             THEN [ok |-> FALSE, tables |-> tables, calls |-> FinallyClose(<<"connect", "initialize">>)]
        \* line 654: the SELECT takes the record date as a DATE
        ELSE IF rd.kind = "invalid"
             THEN [ok |-> FALSE, tables |-> tables,
                   calls |-> FinallyClose(<<"connect", "initialize", "select", "rollback">>)]
        ELSE [ok |-> batch.ok, tables |-> batch.tables,
              calls |-> FinallyClose(<<"connect", "initialize", "select">> \o batch.calls)]

(***************************************************************************)
(* The document-store transform (mongo_to_postgres.py) and the historical  *)
(* import (import_historical_data.py) write the same tables.               *)
(***************************************************************************)
\* transform_and_save_document(mongo_doc, pg_conn) for a document [data,
\* record_date]: the record date is the date of the document's timestamp;
\* a document found already processed is skipped
TransformAndSaveDocument(tables, doc, already_processed, fail_at) ==
    IF already_processed THEN [ok |-> TRUE, tables |-> tables, calls |-> <<>>]
    ELSE Transaction(tables, SaveStatements(doc.data, [kind |-> "date", date |-> doc.record_date]),
                     fail_at)

month_name == <<"January", "February", "March", "April", "May", "June", "July", "August",
                "September", "October", "November", "December">>

\* CASE_STATUS.upper() for the statuses of the sheets
upper == ("Certified" :> "CERTIFIED") @@ ("Denied" :> "DENIED") @@ ("Withdrawn" :> "WITHDRAWN")

\* the places of the first case of every group: cases i and j are in one
\* group when SameGroup holds (the groups are taken in order of appearance;
\* the order of the rows of a table is not observable)
FirstOfDay(cases) ==
    SelectSeq(Indices(cases), LAMBDA i : \A j \in 1..(i - 1) : cases[j].decision # cases[i].decision)

\* generate_daily_data (lines 102-119)
generate_daily_data(cases) ==
    LET first == FirstOfDay(cases)
    IN  [k \in 1..Len(first) |->
            [date |-> cases[first[k]].decision, day_of_week |-> DayOfWeek(cases[first[k]].decision),
             total_applications |->
                 Cardinality({j \in 1..Len(cases) : cases[j].decision = cases[first[k]].decision})]]

MonthGroup(c) == <<c.decision.month, c.decision.year, c.status>>

FirstOfMonth(cases) ==
    SelectSeq(Indices(cases), LAMBDA i : \A j \in 1..(i - 1) : MonthGroup(cases[j]) # MonthGroup(cases[i]))

\* generate_monthly_data (lines 121-143)
generate_monthly_data(cases) ==
    LET first == FirstOfMonth(cases)
    IN  [k \in 1..Len(first) |->
            [month |-> month_name[cases[first[k]].decision.month], year |-> cases[first[k]].decision.year,
             status |-> Str(<<upper[cases[first[k]].status]>>),
             count |-> Num(Cardinality({j \in 1..Len(cases) : MonthGroup(cases[j]) = MonthGroup(cases[first[k]])})),
             daily_change |-> Num(0), is_active |-> Bool(FALSE)]]

\* d is before e
Before(d, e) ==
    \/ d.year < e.year
    \/ d.year = e.year /\ d.month < e.month
    \/ d.year = e.year /\ d.month = e.month /\ d.day < e.day

\* generate_summary_stats (lines 157-182)
generate_summary_stats(cases) ==
    LET latest_date == cases[CHOOSE i \in 1..Len(cases) : \A j \in 1..Len(cases) : ~Before(cases[i].decision, cases[j].decision)].decision
    IN  [record_date |-> latest_date,
         total_applications |-> Len(cases),
         pending_applications |-> 0,
         pending_percentage |-> 0,
         changes_today |-> 0,
         completed_today |-> Cardinality({j \in 1..Len(cases) : cases[j].decision = latest_date})]

\* process_data (lines 66-100) for cleaned cases [decision, status, days]
process_data(cases) ==
    [daily_data |-> generate_daily_data(cases),
     monthly_data |-> generate_monthly_data(cases),
     processing_times |-> calculate_percentiles([i \in 1..Len(cases) |-> cases[i].days]),
     summary_stats |-> generate_summary_stats(cases)]

\* the statements of the import's save_to_postgres (lines 242-337), in order;
\* the percentiles are inserted under the date of the run
ImportStatements(processed_data, now) ==
    [i \in 1..Len(processed_data.daily_data) |->
        Statement("daily_progress", processed_data.daily_data[i], "upsert", NoParam)]
    \o [i \in 1..Len(processed_data.monthly_data) |->
           Statement("monthly_status", processed_data.monthly_data[i], "upsert", NoParam)]
    \o <<Statement("historical_processing_times",
                   [reference_date |-> now,
                    percentile_30 |-> processed_data.processing_times["30_percentile"],
                    percentile_50 |-> processed_data.processing_times["50_percentile"],
                    percentile_80 |-> processed_data.processing_times["80_percentile"]],
                   "insert", NoParam),
         Statement("summary_stats", processed_data.summary_stats, "upsert", NoParam)>>

\* save_to_postgres(conn, processed_data) of the import (lines 184-361)
ImportSave(tables, processed_data, now, fail_at) ==
    Transaction(tables, ImportStatements(processed_data, now), fail_at)


(***************************************************************************)
(* The inputs: page payloads written the way the tracked page writes them. *)
(***************************************************************************)
\* most month records, day objects and markup items an input holds
MaxMonths == 2
MaxDays == 2
MaxItems == 2

RECURSIVE JoinComma(_)
JoinComma(ss) ==
    IF ss = <<>> THEN <<>>
    ELSE IF Len(ss) = 1 THEN Head(ss)
    ELSE Head(ss) \o <<",">> \o JoinComma(Tail(ss))

IntText(n) == IF n < 0 THEN <<"-", NumTok(0 - n)>> ELSE <<NumTok(n)>>

\* {"status":"..","count":c,"dailyChange":d} with quotes written q
StatusText(q, st) ==
    <<"{", q, "status", q, ":", q, st.status, q, ",", q, "count", q, ":", NumTok(st.count), ",",
      q, "dailyChange", q, ":">> \o IntText(st.dailyChange) \o <<"}">>

\* {"month":"..","active":b,"statuses":[..]}; a record with shape "noactive" has no active key
MonthText(q, mo) ==
    <<"{", q, "month", q, ":", q, mo.month, q, ",">>
    \o (IF mo.shape = "noactive" THEN <<>>
        ELSE <<q, "active", q, ":", IF mo.active THEN "true" ELSE "false", ",">>)
    \o <<q, "statuses", q, ":", "[">>
    \o JoinComma([i \in 1..Len(mo.statuses) |-> StatusText(q, mo.statuses[i])])
    \o <<"]", "}">>

ArrayBody(q, months) == JoinComma([i \in 1..Len(months) |-> MonthText(q, months[i])])

StatusRecs ==
    {[status |-> s, count |-> c, dailyChange |-> d] :
        s \in {"CERTIFIED", "ANALYST REVIEW"}, c \in {0, 1, MaxNum}, d \in {-1, 0, 1}}

Cert5 == [status |-> "CERTIFIED", count |-> 100, dailyChange |-> 2]

\* CERTIFIED 100/+5 with ANALYST REVIEW 50/0, and the other completed statuses
ExampleStatuses ==
    <<[status |-> "CERTIFIED", count |-> 100, dailyChange |-> 5],
      [status |-> "ANALYST REVIEW", count |-> 50, dailyChange |-> 0]>>
ClosedStatuses ==
    <<[status |-> "DENIED", count |-> 1, dailyChange |-> 1],
      [status |-> "WITHDRAWN", count |-> 2, dailyChange |-> 1],
      [status |-> "DENIED", count |-> 1, dailyChange |-> -1]>>

\* two pending of three: 66.67 per cent
RoundingStatuses ==
    <<[status |-> "ANALYST REVIEW", count |-> 2, dailyChange |-> 0],
      [status |-> "CERTIFIED", count |-> 1, dailyChange |-> 1]>>

StatusLists ==
    {<<>>, ExampleStatuses, ClosedStatuses, RoundingStatuses}
    \cup {<<st>> : st \in StatusRecs} \cup {<<Cert5, st>> : st \in StatusRecs}

MonthRecs ==
    {[month |-> "Mar 2025", active |-> TRUE, shape |-> "full", statuses |-> sl] : sl \in StatusLists}
    \cup {[month |-> "Feb 2025", active |-> FALSE, shape |-> sh, statuses |-> <<Cert5>>] :
            sh \in {"full", "noactive"}}

OtherMonth == [month |-> "Feb 2025", active |-> FALSE, shape |-> "full", statuses |-> <<>>]
GoodMonth == [month |-> "Mar 2025", active |-> TRUE, shape |-> "full", statuses |-> <<Cert5>>]

RECURSIVE Repeat(_, _)
Repeat(x, n) == IF n <= 0 THEN <<>> ELSE <<x>> \o Repeat(x, n - 1)

MonthLists ==
    {<<>>} \cup {<<mo>> : mo \in MonthRecs}
    \cup {Repeat(GoodMonth, n - 1) \o <<mo>> : mo \in MonthRecs, n \in 2..MaxMonths}

\* the monthly part of a payload in its variants
MonthsTexts ==
    LET key == <<EQ, MARKER, EQ, ":">>
    IN  \* well-formed, and with a trailing comma that json.loads rejects
        {key \o <<"[">> \o ArrayBody(EQ, ml) \o tail : ml \in MonthLists, tail \in {<<"]">>, <<",", "]">>}}
        \* never closed; closed on the last character of the window; closed one late
        \cup {key \o <<"[">> \o ArrayBody(EQ, <<GoodMonth>>),
              key \o <<"[", PAD, "]">>,
              key \o <<"[", "x", PAD, "]">>,
              key \o <<"[">> \o ArrayBody(EQ, <<GoodMonth>>) \o <<PAD, "]">>,
              \* an inner array left open, closed by the bracket meant for the outer one
              key \o <<"[", "[">> \o ArrayBody(EQ, <<GoodMonth>>) \o <<"]">>,
              \* the marker without any array
              key}

GoodMonths == <<EQ, MARKER, EQ, ":", "[">> \o ArrayBody(EQ, <<GoodMonth>>) \o <<"]">>
MarkerOnly == <<EQ, MARKER, EQ>>
\* the key as the very first characters of the payload
BareKeyMonths == <<MARKER, ":", "[">> \o ArrayBody(EQ, <<GoodMonth>>) \o <<"]">>

\* date labels: Mon/DD/YY, then optionally " (today)", then optionally newline and day name
DateLabels ==
    {<<"Feb", "/", "24", "/", "25">> \o t \o d : t \in {<<>>, <<TODAY>>}, d \in {<<>>, <<EBS, "n", "Mon">>}}

DayRecs ==
    {[label |-> l, counters |-> cs] :
        l \in {<<"Feb", "/", "24", "/", "25">>, <<"Feb", "/", "24", "/", "25", EBS, "n", "Mon">>, <<>>},
        cs \in {<<>>, <<1>>, <<MaxNum, 2>>}}
    \cup {[label |-> l, counters |-> <<1>>] : l \in DateLabels}

\* {"0":"<label>","1":c1,"2":c2}
DayText(q, d) ==
    <<"{", q, "0", q, ":", q>> \o d.label \o <<q>>
    \o Concat([i \in 1..Len(d.counters) |-> <<",", q, NumTok(i), q, ":", NumTok(d.counters[i])>>])
    \o <<"}">>

GoodDay == [label |-> <<"Feb", "/", "24", "/", "25", EBS, "n", "Mon">>, counters |-> <<1, 2>>]

DayLists ==
    {<<>>} \cup {<<d>> : d \in DayRecs}
    \cup {Repeat(GoodDay, n - 1) \o <<d>> : d \in DayRecs, n \in 2..MaxDays}
    \cup {<<d, GoodDay>> : d \in DayRecs}

\* [2935,{..},{..}] : the default panel index and the day objects
DataArray(q, days) ==
    <<"[", "2">> \o Concat([i \in 1..Len(days) |-> <<",">> \o DayText(q, days[i])]) \o <<"]">>

\* the daily part of a payload, by the syntax around the data array
DailyText(style, days) ==
    CASE style = "escaped"  -> SubSeq(AnchorHead1, 1, Len(AnchorHead1) - 1) \o DataArray(EQ, days) \o <<"}", "]">>
      [] style = "plain"    -> SubSeq(AnchorHead3, 1, Len(AnchorHead3) - 1) \o DataArray(DQ, days) \o <<"}", "]">>
      [] style = "tagonly"  -> <<DQ, "$">> \o SubSeq(AnchorHead4, 1, Len(AnchorHead4) - 1) \o DataArray(DQ, days) \o <<"}">>
      [] style = "other"    -> <<EQ, "$", "L18", EQ, ":", "{", EQ, "data", EQ, ":">> \o DataArray(EQ, days) \o <<"}">>
      [] style = "open"     -> SubSeq(AnchorHead1, 1, Len(AnchorHead1) - 1) \o DataArray(EQ, days) \o <<"}">>
      [] style = "noanchor" -> DataArray(EQ, days)

DailyStyles == {"escaped", "plain", "tagonly", "other", "open", "noanchor"}

DailyTexts == {DailyText(st, dl) : st \in DailyStyles, dl \in DayLists}

GoodDaily == DailyText("escaped", <<GoodDay>>)

\* \"30%\":\"<= \"42\"  for one percentile label
BoundText(q, label, n) == <<q, label, q, ":", q, LE, q, NumTok(n), q>>

PercentileTexts ==
    {BoundText(EQ, "30%", t[1]) \o BoundText(EQ, "50%", t[2]) \o BoundText(EQ, "80%", t[3]) :
        t \in {<<42, 64, 90>>, <<90, 64, 42>>, <<0, 0, 0>>, <<1, 1, MaxNum>>}}
    \cup {BoundText(EQ, "30%", 42) \o BoundText(EQ, "50%", 64),
          BoundText(EQ, "50%", 64) \o BoundText(EQ, "30%", 42) \o BoundText(EQ, "80%", 90),
          BoundText(EQ, "30%", 42) \o <<EQ, "50%", EQ>> \o BoundText(EQ, "80%", 90),
          BoundText(EQ, "30%", 42) \o <<"x">> \o BoundText(EQ, "50%", 64) \o <<"x">> \o BoundText(EQ, "80%", 90),
          BoundText(DQ, "30%", 42) \o BoundText(DQ, "50%", 64) \o BoundText(DQ, "80%", 90),
          <<EQ, "30%", EQ, EQ, "50%", EQ, EQ, "80%", EQ>>}

GoodPercentiles == BoundText(EQ, "30%", 42) \o BoundText(EQ, "50%", 64) \o BoundText(EQ, "80%", 90)

\* payloads: one part varied, the other parts present or absent
Fragments ==
    {<<"x">> \o m \o d \o p : m \in MonthsTexts, d \in {GoodDaily, <<>>}, p \in {GoodPercentiles}}
    \cup {<<"x">> \o m \o d \o p : m \in {GoodMonths, MarkerOnly}, d \in DailyTexts, p \in {<<>>}}
    \cup {<<"x">> \o m \o d \o p : m \in {GoodMonths, MarkerOnly}, d \in {GoodDaily, <<>>}, p \in PercentileTexts}
    \cup {lead \o m \o d \o p : lead \in {<<>>, <<"x">>}, m \in {BareKeyMonths, GoodMonths, <<>>},
                                d \in {GoodDaily, <<>>}, p \in {GoodPercentiles, <<>>}}
    \cup {d \o <<"x">> \o m : d \in {GoodDaily}, m \in {GoodMonths}}
    \cup {<<"x", EQ, MARKER, EQ, "todayDate", DQ, ":", DQ, "2025-03-12", DQ>> \o GoodDaily}

\* a few payloads for markup with several items
SmallFragments ==
    {<<"x">> \o GoodMonths \o GoodDaily \o GoodPercentiles,
     <<"x">> \o GoodMonths \o GoodDaily,
     <<"x">> \o MarkerOnly \o DailyText("escaped", <<GoodDay, GoodDay>>)
            \o BoundText(EQ, "30%", 1) \o BoundText(EQ, "50%", 2) \o BoundText(EQ, "80%", 3),
     <<"x", EQ, MARKER, EQ, ":", "[">> \o ArrayBody(EQ, <<OtherMonth>>) \o <<"]">> \o GoodDaily,
     <<"x">> \o GoodDaily \o GoodPercentiles,
     <<"x">>}

Item(w, f) == [wrapped |-> w, text |-> f]

RECURSIVE ItemLists(_)
ItemLists(n) ==
    IF n = 0 THEN {<<>>}
    ELSE {<<>>} \cup {<<it>> \o rest : it \in {Item(w, f) : w \in BOOLEAN, f \in SmallFragments},
                                       rest \in ItemLists(n - 1)}

Htmls == {<<Item(TRUE, f)>> : f \in Fragments} \cup ItemLists(MaxItems)

\* PROCESSING_DAYS columns of the historical import
MaxRows == 3
RECURSIVE Columns(_)
Columns(n) == IF n = 0 THEN {<<>>} ELSE {<<x>> \o c : x \in {0, 1, MaxNum, 100}, c \in Columns(n - 1)}
DataFrames == UNION {Columns(n) : n \in 1..MaxRows}

(***************************************************************************)
(* The inputs of whole runs: pages, staged documents, sheets, the clock    *)
(***************************************************************************)
\* most invocations of the programs in one history
MaxRuns == 2
\* the largest retry_count a call of fetch_html_from_url is given
MaxRetries == 3

\* attempts of fetch_html_from_url
retry_count == 3

Day(label, counters) == [label |-> label, counters |-> counters]

Mar08Sat == <<"Mar", "/", "08", "/", "25", EBS, "n", "Sat">>
Mar24Mon == <<"Mar", "/", "24", "/", "25", EBS, "n", "Mon">>
Mar24 == <<"Mar", "/", "24", "/", "25">>
Mar25Today == <<"Mar", "/", "25", "/", "25", TODAY>>
Mar25TodayTue == <<"Mar", "/", "25", "/", "25", TODAY, EBS, "n", "Tue">>
Feb42 == <<"Feb", "/", "42", "/", "25">>
Mar2499 == <<"Mar", "/", "24", "/", "99">>
Xyz24 == <<"Xyz", "/", "24", "/", "25">>
Xyz25Today == <<"Xyz", "/", "25", "/", "25", TODAY>>
Mar25BareToday == <<"Mar", "/", "25", "/", "25", TodayBare>>

\* the daily series of the pages: without a marked entry, with a marked
\* entry, with a marked entry that has a day name, with a label that is no date,
\* with a month that is no abbreviation (unmarked and marked), with a year of
\* the nineties, with the word today without parentheses
RunDayLists ==
    {<<Day(Mar08Sat, <<1, 2>>), Day(Mar24Mon, <<MaxNum>>)>>,
     <<Day(Mar24Mon, <<2>>), Day(Mar25TodayTue, <<1>>)>>,
     <<Day(Feb42, <<1>>), Day(Mar08Sat, <<2>>)>>,
     <<Day(Mar2499, <<1>>), Day(Xyz24, <<2>>)>>,
     <<Day(Xyz25Today, <<1>>)>>,
     <<Day(Mar25BareToday, <<1>>)>>}

ExampleMonth == [month |-> "Mar 2025", active |-> TRUE, shape |-> "full", statuses |-> ExampleStatuses]
ExampleMonths == <<EQ, MARKER, EQ, ":", "[">> \o ArrayBody(EQ, <<ExampleMonth>>) \o <<"]">>

RunFragments ==
    {<<"x">> \o GoodMonths \o DailyText("escaped", dl) \o GoodPercentiles : dl \in RunDayLists}
    \cup {<<"x">> \o ExampleMonths \o DailyText("escaped", <<Day(Mar24, <<1>>), Day(Mar25Today, <<1>>)>>),
          <<"x">> \o GoodMonths \o GoodPercentiles,
          <<"x">>}

RunHtmls == {<<Item(TRUE, f)>> : f \in RunFragments}

\* the input source (--url or PERM_URL, --file, both, none), SAVE_TO_POSTGRES,
\* OUTPUT_FILE and SAVE_BACKUP of an invocation
Config(mode, save, output) == [mode |-> mode, save |-> save, output |-> output, backup |-> FALSE]
WithBackup(c) == [c EXCEPT !.backup = TRUE]
NoConfig == Config("none", FALSE, FALSE)
Configs ==
    {Config("url", TRUE, TRUE), WithBackup(Config("url", TRUE, FALSE)), Config("file", TRUE, TRUE),
     Config("file", FALSE, TRUE), Config("both", FALSE, FALSE), NoConfig}

\* json.loads of a month array, as a staged document holds it
MonthsOf(months) == JsonLoads(<<"[">> \o ArrayBody(DQ, months) \o <<"]">>).val.v

Document(days, months, times, stamp) ==
    [data |-> ("dailyProgress" :> days) @@ ("submissionMonths" :> MonthsOf(months))
              @@ ("summary" :> Summary(MonthsOf(months))) @@ ("processingTimes" :> times),
     record_date |-> stamp]

\* staged documents of earlier scrapes
Documents ==
    {Document(<<[date |-> <<"Mar", "/", "08", "/", "25", " ", "Sat">>, total |-> 2]>>,
              <<ExampleMonth>>, PercentileRecord(42, 64, 90), Date(2025, 3, 8)),
     Document(<<[date |-> <<"Mar", "/", "24", "/", "25", " ", "Mon">>, total |-> 1]>>,
              <<GoodMonth>>, PercentileRecord(1, 2, MaxNum), Date(2025, 3, 24))}

Case(decision, status, days) == [decision |-> decision, status |-> status, days |-> days]

\* cleaned sheets of decided cases
Sheets ==
    {<<Case(Date(2025, 3, 8), "Certified", 100), Case(Date(2025, 3, 8), "Denied", 1),
       Case(Date(2025, 2, 24), "Certified", MaxNum)>>,
     <<Case(Date(2025, 3, 24), "Certified", 1)>>}

\* the dates datetime.now() can give
Clock == {Date(2025, 3, 25)}

(***************************************************************************)
(* The programs                                                            *)
(***************************************************************************)
EmptyResult == <<>>
Unbound == [bound |-> FALSE, v |-> <<>>]
NoSpan == [found |-> FALSE, span |-> <<>>]

NoWrites == [t \in DOMAIN EmptyTables |-> <<>>]
NoPrev == [failure |-> "none", db |-> EmptyTables, repeat |-> FALSE]
NoSaved == [some |-> FALSE, data |-> EmptyResult]
NoFile == [written |-> FALSE, data |-> EmptyResult]
NoFetch == [retry_count |-> retry_count, responses |-> <<>>, ret |-> "none", events |-> <<>>]
NoConn == <<>>

\* before any invocation: empty tables
Stopped ==
    /\ config = NoConfig
    /\ db = EmptyTables
    /\ save_result = "none"
    /\ record_date = NoDate
    /\ output_file = NoFile
    /\ exit_code = -1
    /\ runs = 0
    /\ prev = NoPrev
    /\ last_saved = NoSaved
    /\ last_write = NoWrites
    /\ fetch = NoFetch
    /\ calls = <<>>
    /\ conn = NoConn

Init ==
    /\ \/ program = "scraper" /\ html \in Htmls /\ df = <<>> /\ pc = "locate"
       \/ program = "import" /\ html = <<>> /\ df \in DataFrames /\ pc = "import"
    /\ target_block = <<>>
    /\ result = EmptyResult
    /\ daily_data = Unbound
    /\ raw_array = NoSpan
    /\ exc = "none"
    /\ run_result = "none"
    /\ output_error = FALSE
    /\ hist = <<>>
    /\ Stopped

\* lines 41-67: choose the target fragment; without one, return the empty result
Locate ==
    /\ pc = "locate"
    /\ LET blocks == ScriptBlocks(html)
           t == TargetIndex(blocks)
       IN  IF t = 0
           THEN /\ pc' = "returned"
                /\ UNCHANGED <<target_block, result>>
           ELSE /\ pc' = "months"
                /\ target_block' = blocks[t]
                /\ result' = IF PayloadTodayDate(blocks[t]).kind = "none" THEN result
                             ELSE ("todayDate" :> PayloadTodayDate(blocks[t])) @@ result
    /\ UNCHANGED <<program, html, daily_data, raw_array, exc, run_result, output_error, df, hist, pvars>>

\* lines 69-147
Months ==
    /\ pc = "months"
    /\ LET st == MonthsStage(target_block)
       IN  /\ result' = IF st.path \in {"json", "regex"}
                         THEN ("submissionMonths" :> st.months) @@ result
                         ELSE result
           /\ raw_array' = IF st.path = "none" THEN raw_array ELSE [found |-> TRUE, span |-> st.span]
    /\ pc' = "daily"
    /\ UNCHANGED <<program, html, target_block, daily_data, exc, run_result, output_error, df, hist, pvars>>

\* lines 149-326
Daily ==
    /\ pc = "daily"
    /\ LET d == DailyStage(target_block)
       IN  CASE d.outcome = "typeerror" ->
                    /\ pc' = "raised" /\ exc' = "TypeError"
                    /\ UNCHANGED <<result, daily_data, raw_array>>
             [] d.outcome = "set" ->
                    /\ pc' = "percentiles"
                    /\ result' = ("defaultPanIndex" :> d.index) @@ ("dailyProgress" :> d.days) @@ result
                    /\ daily_data' = [bound |-> TRUE, v |-> d.days]
                    /\ raw_array' = d.raw
                    /\ UNCHANGED exc
             [] d.outcome = "unset" ->
                    /\ pc' = "percentiles"
                    /\ raw_array' = IF d.raw.found THEN d.raw ELSE raw_array
                    /\ UNCHANGED <<result, daily_data, exc>>
    /\ UNCHANGED <<program, html, target_block, run_result, output_error, df, hist, pvars>>

\* lines 328-341
Percentiles ==
    /\ pc = "percentiles"
    /\ result' = WithProcessingTimes(result, PercentilesMatch(target_block))
    /\ pc' = "summary"
    /\ UNCHANGED <<program, html, target_block, daily_data, raw_array, exc, run_result, output_error, df, hist, pvars>>

\* lines 343-384
Summarize ==
    /\ pc = "summary"
    /\ result' = IF /\ "submissionMonths" \in DOMAIN result
                    /\ result["submissionMonths"] # <<>>
                    /\ SummaryComputable(result["submissionMonths"])
                 THEN ("summary" :> Summary(result["submissionMonths"])) @@ result
                 ELSE result
    /\ pc' = "today"
    /\ UNCHANGED <<program, html, target_block, daily_data, raw_array, exc, run_result, output_error, df, hist, pvars>>

\* lines 386-430: reading the unbound local daily_data raises UnboundLocalError
Today ==
    /\ pc = "today"
    /\ IF ~daily_data.bound
       THEN /\ pc' = "raised" /\ exc' = "UnboundLocalError"
            /\ UNCHANGED result
       ELSE LET r == TodayStage(daily_data.v)
            IN  IF r.exc # "none"
                THEN /\ pc' = "raised" /\ exc' = r.exc
                     /\ UNCHANGED result
                ELSE /\ pc' = "returned"
                     /\ result' = ("todayDate" :> r.date) @@ result
                     /\ UNCHANGED exc
    /\ UNCHANGED <<program, html, target_block, daily_data, raw_array, run_result, output_error, df, hist, pvars>>

\* run_scraper lines 842-871: after the extraction only writing the output file can raise
RunContinue ==
    /\ pc = "returned"
    /\ \E raised \in BOOLEAN :
          /\ output_error' = raised
          /\ run_result' = IF raised THEN "False" ELSE "True"
    /\ pc' = "done"
    /\ UNCHANGED <<program, html, target_block, result, daily_data, raw_array, exc, df, hist, pvars>>

\* run_scraper lines 873-875: every exception makes the run return False
RunExcept ==
    /\ pc = "raised"
    /\ run_result' = "False"
    /\ pc' = "done"
    /\ UNCHANGED <<program, html, target_block, result, daily_data, raw_array, exc, output_error, df, hist, pvars>>

\* import_historical_data.py line 90
CalculatePercentiles ==
    /\ pc = "import"
    /\ hist' = <<calculate_percentiles(df)>>
    /\ pc' = "imported"
    /\ UNCHANGED <<program, html, target_block, result, daily_data, raw_array, exc, run_result,
                   output_error, df, pvars>>

Next ==
    \/ Locate
    \/ Months
    \/ Daily
    \/ Percentiles
    \/ Summarize
    \/ Today
    \/ RunContinue
    \/ RunExcept
    \/ CalculatePercentiles

Spec == Init /\ [][Next]_vars

(***************************************************************************)
(* fetch_html_from_url.  The network is the sequence of what successive    *)
(* requests meet; a call is the sequence of its requests and sleeps.       *)
(***************************************************************************)
\* what requests.get followed by raise_for_status can meet: the page, a
\* transport failure, a response with a 4xx or 5xx status (HTTPError), all of
\* them RequestException, or an error that is no RequestException
RequestExceptions == {"ConnectionError", "Timeout", "HTTP404", "HTTP503"}
Responses == {"ok", "OtherError"} \cup RequestExceptions

ResponseSeqs(n) == [1..n -> Responses]

Request(met) == [call |-> "get", met |-> met]
Sleep == [call |-> "sleep", met |-> "none"]

RECURSIVE FetchLoop(_, _, _, _)
\* the loop of lines 449-476 from the given attempt on (attempts count from 0)
FetchLoop(responses, retries, attempt, events) ==
    IF attempt >= retries
    THEN \* range(retry_count) is used up: the function ends without return
         [ret |-> "None", exc |-> "none", events |-> events]
    ELSE LET met == responses[attempt + 1]
             got == events \o <<Request(met)>>
         IN  IF met = "ok" THEN [ret |-> "text", exc |-> "none", events |-> got]
             ELSE IF met \notin RequestExceptions
                  THEN [ret |-> "raised", exc |-> "Exception", events |-> got]
             ELSE IF attempt < retries - 1
                  THEN FetchLoop(responses, retries, attempt + 1, got \o <<Sleep>>)
             ELSE [ret |-> "raised", exc |-> "RequestException", events |-> got]

\* fetch_html_from_url(url, retry_count=retries) on a network that answers
\* the successive requests with responses
fetch_html_from_url(responses, retries) == FetchLoop(responses, retries, 0, <<>>)

(***************************************************************************)
(* Whole invocations: main and run_scraper of perm_scraper.py, with the    *)
(* document-store transform and the historical import writing the same     *)
(* tables between them.                                                    *)
(***************************************************************************)
RunInit ==
    /\ program = "scraper" /\ html = <<>> /\ df = <<>> /\ pc = "idle"
    /\ target_block = <<>>
    /\ result = EmptyResult
    /\ daily_data = Unbound
    /\ raw_array = NoSpan
    /\ exc = "none"
    /\ run_result = "none"
    /\ output_error = FALSE
    /\ hist = <<>>
    /\ Stopped

RECURSIVE Written(_, _)
\* the rows the committed statements wrote last under every natural key
Written(writes, stmts) ==
    IF stmts = <<>> THEN writes
    ELSE LET s == Head(stmts)
         IN  Written([writes EXCEPT ![s.table] = (KeyOf(s.table, s.row) :> s.row) @@ writes[s.table]],
                     Tail(stmts))

\* main lines 877-909: the arguments and the environment of the invocation;
\* without an input source it ends with sys.exit(1)
Main ==
    /\ pc = "idle"
    /\ runs < MaxRuns
    /\ \E c \in Configs :
          /\ config' = c
          /\ IF c.mode = "none"
             THEN pc' = "exited" /\ exit_code' = 1 /\ runs' = runs + 1
             ELSE \* line 911: if args.file, the file is read, whatever --url says
                  pc' = (IF c.mode = "url" THEN "fetch" ELSE "read") /\ exit_code' = -1 /\ runs' = runs
    /\ program' = "scraper"
    /\ html' = <<>> /\ target_block' = <<>> /\ result' = EmptyResult /\ daily_data' = Unbound
    /\ raw_array' = NoSpan /\ exc' = "none" /\ run_result' = "none" /\ output_error' = FALSE
    /\ save_result' = "none" /\ record_date' = NoDate /\ output_file' = NoFile /\ prev' = NoPrev
    /\ calls' = <<>> /\ conn' = NoConn
    /\ UNCHANGED <<df, hist, db, last_saved, last_write, fetch>>

\* a variant of FetchCalls that starts the extraction before the fetch
FetchCallsExtractFirst(ret, backup) == <<"extract", "fetch">>

\* run_scraper lines 831-839: the calls up to the extraction: the fetch, the
\* backup when SAVE_BACKUP is set, and the extraction when the fetch returned
FetchCalls(ret, backup) ==
    IF ret = "raised" THEN <<"fetch">>
    ELSE <<"fetch">> \o (IF backup = "off" THEN <<>> ELSE <<backup>>) \o <<"extract">>

\* run_scraper lines 829-831: fetch_html_from_url with its default
\* retry_count gives the page or raises
FetchHtml ==
    /\ pc = "fetch"
    /\ \E responses \in ResponseSeqs(retry_count) :
       \E out \in {fetch_html_from_url(responses, retry_count)} :
          IF out.ret = "raised"
          THEN /\ exc' = out.exc /\ pc' = "raised"
               /\ calls' = calls \o FetchCalls(out.ret, "off")
               /\ UNCHANGED html
          ELSE /\ \E h \in RunHtmls : html' = h
               \* lines 834-837: save_html_backup catches its own errors and returns None
               /\ \E backup \in (IF config.backup THEN {"backup", "backup failed"} ELSE {"off"}) :
                     calls' = calls \o FetchCalls(out.ret, backup)
               /\ pc' = "locate"
               /\ UNCHANGED exc
    /\ UNCHANGED <<program, target_block, result, daily_data, raw_array, run_result, output_error, df,
                   hist, config, db, save_result, record_date, output_file, exit_code, runs, prev,
                   last_saved, last_write>>
    /\ UNCHANGED <<fetch, conn>>

\* main lines 911-914
ReadFile ==
    /\ pc = "read"
    /\ \E h \in RunHtmls : html' = h
    /\ pc' = "locate"
    /\ UNCHANGED <<program, target_block, result, daily_data, raw_array, exc, run_result, output_error,
                   df, hist, config, db, save_result, record_date, output_file, exit_code, runs, prev,
                   last_saved, last_write>>
    /\ calls' = calls \o <<"read", "extract">>
    /\ UNCHANGED <<fetch, conn>>

\* run_scraper lines 849-853 and main lines 920-924: save_to_postgres when it
\* is switched on; what it returns is only logged
SaveStep ==
    /\ pc = "returned"
    /\ IF config.save
       THEN \E stmts \in {SaveStatements(result, SqlDate(RecordDate(result)))} :
            \E env \in {"ok", "connect", "initialize", "execute"}, fail_at \in 1..(Len(stmts) + 1) :
            \E out \in {SaveToPostgres(db, result, env, fail_at)} :
               /\ db' = out.tables
               /\ conn' = out.calls
               /\ save_result' = IF out.ok THEN "True" ELSE "False"
               /\ record_date' = RecordDate(result)
               /\ prev' = [failure |-> env, db |-> db,
                           repeat |-> last_saved.some /\ last_saved.data = result]
               /\ last_saved' = IF out.ok THEN [some |-> TRUE, data |-> result] ELSE last_saved
               /\ last_write' = IF out.ok THEN Written(last_write, stmts) ELSE last_write
       ELSE /\ save_result' = "skipped"
            /\ UNCHANGED <<db, record_date, prev, last_saved, last_write, conn>>
    /\ pc' = "output"
    /\ UNCHANGED <<program, html, target_block, result, daily_data, raw_array, exc, run_result,
                   output_error, df, hist, config, output_file, exit_code, runs>>
    /\ calls' = IF config.save THEN calls \o <<"save">> ELSE calls
    /\ UNCHANGED fetch

\* a variant of OutputWanted that writes the file only after a successful save
OutputWantedAfterSave(c, saved) == c.output /\ saved # "False"

\* lines 856-857 and 927-928: the file is written when one is configured
OutputWanted(c, saved) == c.output

\* a variant of Caught without the handler of run_scraper
CaughtNowhere(mode) == "raised"

\* what an exception makes of the run: run_scraper (lines 873-875) catches it
\* and returns False; main has no handler around the file path
Caught(mode) == IF mode = "url" THEN "False" ELSE "raised"

\* run_scraper lines 855-871 and main lines 926-933: the output file; an
\* error while writing it is caught by run_scraper and ends main in file mode
WriteOutput ==
    /\ pc = "output"
    /\ IF OutputWanted(config, save_result)
       THEN \E raised \in BOOLEAN :
               /\ output_error' = raised
               /\ output_file' = IF raised THEN output_file ELSE [written |-> TRUE, data |-> result]
               /\ run_result' = IF ~raised THEN "True"
                                ELSE Caught(config.mode)
       ELSE /\ run_result' = "True"
            /\ UNCHANGED <<output_error, output_file>>
    /\ pc' = "finish"
    /\ UNCHANGED <<program, html, target_block, result, daily_data, raw_array, exc, df, hist, config,
                   db, save_result, record_date, exit_code, runs, prev, last_saved, last_write>>
    /\ calls' = IF OutputWanted(config, save_result) THEN calls \o <<"write">> ELSE calls
    /\ UNCHANGED <<fetch, conn>>

\* run_scraper lines 873-875 catch every exception and return False; main in
\* file mode has no handler around extract_perm_data
Raised ==
    /\ pc = "raised"
    /\ run_result' = Caught(config.mode)
    /\ pc' = "finish"
    /\ UNCHANGED <<program, html, target_block, result, daily_data, raw_array, exc, output_error, df,
                   hist, config, db, save_result, record_date, output_file, exit_code, runs, prev,
                   last_saved, last_write>>
    /\ UNCHANGED <<fetch, calls, conn>>

\* lines 938-939: main() is called and what it returns is dropped: the
\* process ends with 0 unless an exception ended it
Exit ==
    /\ pc = "finish"
    /\ exit_code' = IF run_result = "raised" THEN 1 ELSE 0
    /\ pc' = "exited"
    /\ runs' = runs + 1
    /\ UNCHANGED <<program, html, target_block, result, daily_data, raw_array, exc, run_result,
                   output_error, df, hist, config, db, save_result, record_date, output_file, prev,
                   last_saved, last_write>>
    /\ UNCHANGED <<fetch, calls, conn>>

\* the process has ended: its memory is gone, the tables and the file stay
ProcessEnds ==
    /\ pc = "exited"
    /\ pc' = "idle"
    /\ program' = "scraper"
    /\ html' = <<>> /\ target_block' = <<>> /\ result' = EmptyResult /\ daily_data' = Unbound
    /\ raw_array' = NoSpan /\ exc' = "none" /\ run_result' = "none" /\ output_error' = FALSE
    /\ config' = NoConfig /\ save_result' = "none" /\ record_date' = NoDate
    /\ output_file' = NoFile /\ prev' = NoPrev /\ exit_code' = -1
    /\ hist' = <<>>
    /\ UNCHANGED <<df, db, runs, last_saved, last_write>>
    /\ calls' = <<>> /\ conn' = NoConn
    /\ UNCHANGED fetch

\* run_scraper lines 821-825, called with url None while PERM_URL is not set:
\* it returns False at once
RunScraperNoUrl ==
    /\ pc = "idle"
    /\ runs < MaxRuns
    /\ config' = Config("nourl", FALSE, FALSE)
    /\ run_result' = "False"
    /\ pc' = "exited"
    /\ runs' = runs + 1
    /\ program' = "scraper"
    /\ calls' = <<>> /\ conn' = NoConn
    /\ html' = <<>> /\ target_block' = <<>> /\ result' = EmptyResult /\ daily_data' = Unbound
    /\ raw_array' = NoSpan /\ exc' = "none" /\ output_error' = FALSE
    /\ save_result' = "none" /\ record_date' = NoDate /\ output_file' = NoFile /\ prev' = NoPrev
    /\ exit_code' = -1
    /\ UNCHANGED <<df, hist, db, last_saved, last_write, fetch>>

\* mongo_to_postgres.py: one staged document is transformed and saved
TransformDocument ==
    /\ pc = "idle"
    /\ runs < MaxRuns
    /\ \E doc \in Documents, already_processed \in BOOLEAN :
       \E stmts \in {SaveStatements(doc.data, [kind |-> "date", date |-> doc.record_date])} :
       \E fail_at \in 0..(Len(stmts) + 1) :
       \E out \in {TransformAndSaveDocument(db, doc, already_processed, fail_at)} :
          /\ db' = out.tables
          /\ save_result' = IF out.ok THEN "True" ELSE "False"
          /\ last_saved' = IF out.ok /\ ~already_processed THEN NoSaved ELSE last_saved
          /\ last_write' = IF out.ok /\ ~already_processed THEN Written(last_write, stmts)
                           ELSE last_write
    /\ result' = EmptyResult
    /\ program' = "mongo"
    /\ pc' = "exited"
    /\ runs' = runs + 1
    /\ html' = <<>> /\ target_block' = <<>> /\ daily_data' = Unbound
    /\ raw_array' = NoSpan /\ exc' = "none" /\ run_result' = "none" /\ output_error' = FALSE
    /\ config' = NoConfig /\ record_date' = NoDate /\ output_file' = NoFile /\ prev' = NoPrev
    /\ exit_code' = -1
    /\ UNCHANGED <<df, hist>>
    /\ calls' = <<>> /\ conn' = NoConn
    /\ UNCHANGED fetch

\* import_historical_data.py main: a sheet is processed and saved
ImportHistorical ==
    /\ pc = "idle"
    /\ runs < MaxRuns
    /\ \E sheet \in Sheets, now \in Clock :
       \E processed_data \in {process_data(sheet)} :
       \E stmts \in {ImportStatements(processed_data, now)} :
       \E fail_at \in 0..(Len(stmts) + 1) :
       \E out \in {ImportSave(db, processed_data, now, fail_at)} :
          /\ db' = out.tables
          /\ save_result' = IF out.ok THEN "True" ELSE "False"
          /\ exit_code' = IF out.ok THEN 0 ELSE 1
          /\ last_saved' = IF out.ok THEN NoSaved ELSE last_saved
          /\ last_write' = IF out.ok THEN Written(last_write, stmts) ELSE last_write
          /\ hist' = <<processed_data.processing_times>>
    /\ program' = "import"
    /\ pc' = "exited"
    /\ runs' = runs + 1
    /\ html' = <<>> /\ target_block' = <<>> /\ result' = EmptyResult /\ daily_data' = Unbound
    /\ raw_array' = NoSpan /\ exc' = "none" /\ run_result' = "none" /\ output_error' = FALSE
    /\ config' = NoConfig /\ record_date' = NoDate /\ output_file' = NoFile /\ prev' = NoPrev
    /\ UNCHANGED df
    /\ calls' = <<>> /\ conn' = NoConn
    /\ UNCHANGED fetch

RunNext ==
    \/ Main
    \/ FetchHtml
    \/ ReadFile
    \/ Locate
    \/ Months
    \/ Daily
    \/ Percentiles
    \/ Summarize
    \/ Today
    \/ SaveStep
    \/ WriteOutput
    \/ Raised
    \/ Exit
    \/ ProcessEnds
    \/ RunScraperNoUrl
    \/ TransformDocument
    \/ ImportHistorical

RunSpec == RunInit /\ [][RunNext]_vars

(***************************************************************************)
(* fetch_html_from_url called on its own, with any retry_count             *)
(***************************************************************************)
FetchInit ==
    /\ program = "scraper" /\ html = <<>> /\ df = <<>> /\ pc = "idle"
    /\ target_block = <<>>
    /\ result = EmptyResult
    /\ daily_data = Unbound
    /\ raw_array = NoSpan
    /\ exc = "none"
    /\ run_result = "none"
    /\ output_error = FALSE
    /\ hist = <<>>
    /\ config = NoConfig
    /\ db = EmptyTables
    /\ save_result = "none"
    /\ record_date = NoDate
    /\ output_file = NoFile
    /\ exit_code = -1
    /\ runs = 0
    /\ prev = NoPrev
    /\ last_saved = NoSaved
    /\ last_write = NoWrites
    /\ calls = <<>>
    /\ conn = NoConn
    /\ fetch \in {[retry_count |-> n, responses |-> rs, ret |-> "none", events |-> <<>>] :
                    n \in 0..MaxRetries, rs \in ResponseSeqs(MaxRetries)}

\* the call runs to its end
FetchCall ==
    /\ fetch.ret = "none"
    /\ \E out \in {fetch_html_from_url(fetch.responses, fetch.retry_count)} :
          /\ fetch' = [fetch EXCEPT !.ret = out.ret, !.events = out.events]
          /\ exc' = out.exc
    /\ UNCHANGED <<program, html, pc, target_block, result, daily_data, raw_array, run_result,
                   output_error, df, hist, config, db, save_result, record_date, output_file,
                   exit_code, runs, prev, last_saved, last_write, calls, conn>>

FetchNext == FetchCall

FetchSpec == FetchInit /\ [][FetchNext]_vars

(***************************************************************************)
(* Properties of extract_perm_data and of the run around it                *)
(***************************************************************************)
\* C1: for every fragment that contains the dataset marker, extract_perm_data
\* returns a result without raising, whichever of the three extractions fails
\* to find its data.
C1_ReturnsWithoutRaising ==
    (program = "scraper" /\ Contains(target_block, MARKER)) => (pc # "raised" /\ exc = "none")

\* the bracket nesting a text ends at: its "[" minus its "]"
Depth(s) ==
    Cardinality({j \in 1..Len(s) : s[j] = "["}) - Cardinality({j \in 1..Len(s) : s[j] = "]"})

\* a span that opens with "[", closes with "]", and is nested everywhere before its end
Balanced(span) ==
    /\ Len(span) >= 2
    /\ span[1] = "[" /\ span[Len(span)] = "]"
    /\ Depth(span) = 0
    /\ \A k \in 1..(Len(span) - 1) : Depth(SubSeq(span, 1, k)) > 0

\* the brackets opened at the first "[" after the key close on a character of the window
ClosesWithinWindow(tb) ==
    LET a == FindTok(tb, "[", FindTok(tb, MARKER, 1))
    IN  /\ a > 0
        /\ \E e \in (a + 1)..Len(tb) :
              /\ Balanced(SubSeq(tb, a, e))
              /\ Offset(tb, e) - Offset(tb, a) < MonthWindow

\* C2: when the monthly span extraction reports an array found, the span begins
\* with "[", ends with "]" and its nesting returns to zero exactly at its last
\* character; when the brackets opened at the first "[" do not close within
\* the 50,000-character window it reports not found, and no unbalanced span
\* is parsed into submissionMonths.
C2_MonthlySpanBalanced ==
    (program = "scraper" /\ pc = "daily") =>
        /\ raw_array.found => (Balanced(raw_array.span) /\ ClosesWithinWindow(target_block))
        /\ ~ClosesWithinWindow(target_block) =>
              (~raw_array.found /\ "submissionMonths" \notin DOMAIN result)
        /\ "submissionMonths" \in DOMAIN result => (raw_array.found /\ Balanced(raw_array.span))

\* a span with an array nested inside it was found and parsed
C2_Witness ==
    /\ program = "scraper" /\ pc = "daily"
    /\ raw_array.found
    /\ \E k \in 2..(Len(raw_array.span) - 1) : raw_array.span[k] = "["
    /\ "submissionMonths" \in DOMAIN result

\* no wrapped item of the markup holds the marker
NoMarker(h) == \A i \in 1..Len(h) : h[i].wrapped => ~Contains(h[i].text, MARKER)

\* C3: when no inline payload fragment contains the marker (markup without any
\* fragment included), extract_perm_data returns an empty result, raises
\* nothing, and the run over that markup completes successfully.
C3_NoMarkerEmptyResult ==
    (program = "scraper" /\ NoMarker(html)) =>
        /\ pc \in {"locate", "returned", "done"}
        /\ exc = "none"
        /\ result = EmptyResult
        /\ DOMAIN result \cap {"submissionMonths", "dailyProgress", "processingTimes", "summary"} = {}
        /\ (pc = "done" /\ ~output_error) => run_result = "True"

\* a run over markup whose only fragments hold data but no marker has ended well
C3_Witness ==
    /\ program = "scraper" /\ pc = "done"
    /\ NoMarker(html)
    /\ \E i \in 1..Len(html) : html[i].wrapped /\ Contains(html[i].text, "30%")
    /\ result = EmptyResult
    /\ run_result = "True"

\* the wrapped items that hold the marker
Marked(h) == {i \in 1..Len(h) : h[i].wrapped /\ Contains(h[i].text, MARKER)}

\* how many day objects a text holds
DayObjectCount(b) ==
    Cardinality({i \in 1..(Len(b) - 2) : b[i] = "{" /\ b[i + 1] \in {EQ, DQ} /\ b[i + 2] = "0"})

\* C4: when several fragments contain the marker, every extracted field of the
\* result is taken from the earliest of them in document order; data that
\* appears only in a later fragment never reaches the result.
C4_FirstMatchOnly ==
    (program = "scraper" /\ pc # "locate" /\ Marked(html) # {}) =>
        LET b == html[MinOf(Marked(html))].text
        IN  /\ target_block = b
            /\ "processingTimes" \in DOMAIN result =>
                  \A f \in DOMAIN result["processingTimes"] :
                     Contains(b, NumTok(result["processingTimes"][f]))
            /\ "dailyProgress" \in DOMAIN result =>
                  /\ Len(result["dailyProgress"]) <= DayObjectCount(b)
                  /\ \A i \in 1..Len(result["dailyProgress"]) :
                        Contains(b, result["dailyProgress"][i].date[1])
            /\ "submissionMonths" \in DOMAIN result =>
                  \A i \in 1..Len(result["submissionMonths"]) :
                     LET mo == result["submissionMonths"][i]
                     IN  (mo.k = "obj" /\ Has(mo, <<"month">>)) =>
                            Contains(b, Get(mo, <<"month">>, Null).v[1])
            /\ ("todayDate" \in DOMAIN result /\ result["todayDate"].kind = "date") =>
                  \E m \in DOMAIN month_num_map :
                     Contains(b, m) /\ month_num_map[m] = result["todayDate"].month

\* two fragments hold the marker, and the later one holds percentiles that the
\* returned result, which has percentiles of its own, does not show
C4_Witness ==
    /\ program = "scraper" /\ pc = "returned"
    /\ Cardinality(Marked(html)) >= 2
    /\ "processingTimes" \in DOMAIN result
    /\ \E i \in Marked(html) :
          /\ i # MinOf(Marked(html))
          /\ Contains(html[i].text, NumTok(42))
          /\ result["processingTimes"]["30_percentile"] # 42

\* C5: when the unescaped monthly span is not well-formed JSON, the regex
\* fallback is applied to it and submissionMonths is set to the month records
\* it recovers; the key is absent only if it recovers none, and the parse
\* failure does not abort the extraction.
C5_RegexFallbackOnJsonFailure ==
    (program = "scraper" /\ pc = "daily" /\ raw_array.found) =>
        LET cleaned == Unescape(raw_array.span)
            recovered == RegexMonths(cleaned)
        IN  ~JsonLoads(cleaned).ok =>
                /\ exc = "none"
                /\ recovered # <<>> =>
                      /\ "submissionMonths" \in DOMAIN result
                      /\ result["submissionMonths"] = recovered
                /\ recovered = <<>> => "submissionMonths" \notin DOMAIN result

\* a span with a trailing comma was read by the fallback, statuses included
C5_Witness ==
    /\ program = "scraper" /\ pc = "daily"
    /\ raw_array.found
    /\ ~JsonLoads(Unescape(raw_array.span)).ok
    /\ "submissionMonths" \in DOMAIN result
    /\ \E i \in 1..Len(result["submissionMonths"]) :
          StatusesOf(result["submissionMonths"][i]).v # <<>>

\* a month string, a boolean active flag, and statuses each with a status
\* string, an integer count and an integer dailyChange
MonthShapeOk(mo) ==
    /\ mo.k = "obj"
    /\ Get(mo, <<"month">>, Null).k = "str"
    /\ Get(mo, <<"active">>, Null).k = "bool"
    /\ Get(mo, <<"statuses">>, Null).k = "arr"
    /\ \A j \in 1..Len(Get(mo, <<"statuses">>, Arr(<<>>)).v) :
          LET st == Get(mo, <<"statuses">>, Arr(<<>>)).v[j]
          IN  /\ st.k = "obj"
              /\ Get(st, <<"status">>, Null).k = "str"
              /\ Get(st, <<"count">>, Null).k = "num"
              /\ Get(st, <<"dailyChange">>, Null).k = "num"

\* how many status objects a text writes
StatusKeyCount(t) == Cardinality({i \in 1..Len(t) : t[i] = "status"})

\* C6: every month record of submissionMonths has the same shape whichever
\* path produced it, and for array text both paths can read, both yield the
\* same records with the same values: the fallback loses or alters no status.
C6_SameRecordsOnBothPaths ==
    (program = "scraper" /\ pc = "daily" /\ raw_array.found) =>
        LET cleaned == Unescape(raw_array.span)
            loaded == JsonLoads(cleaned)
            recovered == RegexMonths(cleaned)
        IN  /\ "submissionMonths" \in DOMAIN result =>
                  /\ \A i \in 1..Len(result["submissionMonths"]) :
                        MonthShapeOk(result["submissionMonths"][i])
                  /\ Len(AllStatuses(result["submissionMonths"])) = StatusKeyCount(cleaned)
            /\ (loaded.ok /\ recovered # <<>>) => loaded.val.v = recovered

\* the data array of a daily span read as JSON: the value after "data":
DataJson(span) ==
    LET normalized == Unescape(Unescape(span))
        i == FindSeq(normalized, <<DQ, "data", DQ, ":">>, 1)
    IN  IF i = 0 THEN ParseFail ELSE ParseValue(normalized, i + 4)

\* the objects of an array that carry a non-empty label under "0"
LabelledDays(elems) ==
    SelectSeq(elems,
              LAMBDA o : o.k = "obj" /\ Get(o, <<"0">>, Null).k = "str" /\ Get(o, <<"0">>, Null).v # <<>>)

\* the sum of the numeric members of a day object other than its label
CounterSum(o) ==
    SumSeq([j \in 1..Len(o.v) |->
               IF o.v[j].key # <<"0">> /\ o.v[j].val.k = "num" THEN o.v[j].val.v ELSE 0])

\* C7: every entry of dailyProgress has a non-empty date label and a total
\* that is >= 0 and equals the sum of the numeric sub-counters of its day
\* object; a day object without a non-empty label is dropped, and the
\* extraction goes on.
C7_DailyEntriesLabelledAndSummed ==
    (program = "scraper" /\ "dailyProgress" \in DOMAIN result) =>
        LET data == DataJson(raw_array.span)
            days == IF data.ok /\ data.val.k = "arr" THEN LabelledDays(data.val.v) ELSE <<>>
        IN  /\ data.ok /\ data.val.k = "arr"
            /\ Len(result["dailyProgress"]) = Len(days)
            /\ \A i \in 1..Len(result["dailyProgress"]) :
                  /\ result["dailyProgress"][i].date # <<>>
                  /\ result["dailyProgress"][i].total >= 0
                  /\ result["dailyProgress"][i].total = CounterSum(days[i])
            /\ exc # "TypeError"

\* a returned series whose fragment held a day object without a label, which
\* is not in it, and an entry that sums two counters
C7_Witness ==
    /\ program = "scraper" /\ pc = "returned"
    /\ "dailyProgress" \in DOMAIN result
    /\ Len(result["dailyProgress"]) >= 1
    /\ DayObjectCount(target_block) > Len(result["dailyProgress"])
    /\ \E i \in 1..Len(result["dailyProgress"]) : result["dailyProgress"][i].total = 3

\* C8: whenever the staged extraction fails to produce the daily series, the
\* unescaped text is scanned directly for day-object-shaped substrings and
\* dailyProgress is set from what the scan recovers.
C8_DailyFallbackScan ==
    (/\ program = "scraper"
     /\ pc \in {"percentiles", "summary", "today", "returned", "raised", "done"}
     /\ FindAllDays(Unescape(target_block), 1) # <<>>) =>
        /\ "dailyProgress" \in DOMAIN result
        /\ result["dailyProgress"] # <<>>

\* the indices at which a pattern occurs in a text
Occurrences(b, pat) == {i \in 1..Len(b) : MatchAt(b, pat, i)}

\* label and bound places in the order of the table: the bounds of such chains
ChainsOf(L30, L50, L80, Bounds) ==
    {c \in Bounds \X Bounds \X Bounds :
        \E l1 \in L30 : \E l2 \in L50 : \E l3 \in L80 :
            /\ l1 + 3 <= c[1] /\ c[1] + 4 <= l2
            /\ l2 + 3 <= c[2] /\ c[2] + 4 <= l3
            /\ l3 + 3 <= c[3]}

\* the chains of a text: each bound is the marker followed by digits
PercentileChains(b) ==
    ChainsOf(Occurrences(b, <<EQ, "30%", EQ>>), Occurrences(b, <<EQ, "50%", EQ>>),
             Occurrences(b, <<EQ, "80%", EQ>>),
             {i \in Occurrences(b, <<EQ, LE, EQ>>) : i + 3 <= Len(b) /\ IsDigits(b[i + 3])})

\* the key is in the result iff there is a chain, and then with a chain's integers
ProcessingTimesFrom(chains, b, res) ==
    /\ "processingTimes" \in DOMAIN res <=> chains # {}
    /\ "processingTimes" \in DOMAIN res =>
          /\ DOMAIN res["processingTimes"] = {"30_percentile", "50_percentile", "80_percentile"}
          /\ \E c \in chains :
                /\ res["processingTimes"]["30_percentile"] = NumVal[b[c[1] + 3]]
                /\ res["processingTimes"]["50_percentile"] = NumVal[b[c[2] + 3]]
                /\ res["processingTimes"]["80_percentile"] = NumVal[b[c[3] + 3]]

\* C9: processingTimes is in the extraction result exactly when "30%", "50%"
\* and "80%" are found in that order in the target fragment, each followed by
\* a bound marker and an integer, and then it holds those three integers;
\* without such a match the key is absent, never zeros or other defaults.
C9_ProcessingTimesIffMatch ==
    program = "scraper" =>
        IF pc \in {"summary", "today", "returned"}
        THEN ProcessingTimesFrom(PercentileChains(target_block), target_block, result)
        ELSE IF pc \in {"locate", "months", "daily", "percentiles"}
        THEN "processingTimes" \notin DOMAIN result
        ELSE "processingTimes" \in DOMAIN result =>
                ProcessingTimesFrom(PercentileChains(target_block), target_block, result)

\* a returned result with the percentiles 42, 64, 90 of its fragment
C9_Witness ==
    /\ program = "scraper" /\ pc = "returned"
    /\ "processingTimes" \in DOMAIN result
    /\ result["processingTimes"] = PercentileRecord(42, 64, 90)

Monotone(r) ==
    r["30_percentile"] <= r["50_percentile"] /\ r["50_percentile"] <= r["80_percentile"]

\* C10: every processing-time percentile record produced, by page extraction
\* or by the historical import, satisfies p30 <= p50 <= p80.
C10_PercentilesMonotone ==
    /\ "processingTimes" \in DOMAIN result => Monotone(result["processingTimes"])
    /\ \A i \in 1..Len(hist) : Monotone(hist[i])

(***************************************************************************)
(* Properties of the summary                                               *)
(***************************************************************************)
\* the status records of the months, each with its place <<month, status>>
PlacedStatuses(months) ==
    UNION {{[at |-> <<i, j>>, st |-> StatusesOf(months[i]).v[j]] :
               j \in 1..Len(StatusesOf(months[i]).v)} : i \in 1..Len(months)}

RECURSIVE SumOfCounts(_)
\* the sum of count over a set of placed statuses
SumOfCounts(S) ==
    IF S = {} THEN 0
    ELSE LET x == CHOOSE y \in S : TRUE
         IN  CountOf(x.st) + SumOfCounts(S \ {x})

RECURSIVE SumOfChanges(_)
\* the sum of dailyChange over a set of placed statuses
SumOfChanges(S) ==
    IF S = {} THEN 0
    ELSE LET x == CHOOSE y \in S : TRUE
         IN  ChangeOf(x.st) + SumOfChanges(S \ {x})

\* C11: the summary of a sequence of monthly status records has
\* total_applications = the sum of all counts, pending_applications = the sum
\* of count over the ANALYST REVIEW statuses, changes_today = the sum of all
\* dailyChange, and completed_today = the sum of dailyChange over the
\* CERTIFIED, DENIED and WITHDRAWN statuses whose dailyChange is positive.
C11_SummarySums ==
    (program = "scraper" /\ "summary" \in DOMAIN result) =>
        LET all == PlacedStatuses(result["submissionMonths"])
            pending == {x \in all : Get(x.st, <<"status">>, Null) = Str(<<"ANALYST REVIEW">>)}
            completed == {x \in all :
                             /\ Get(x.st, <<"status">>, Null) \in
                                   {Str(<<"CERTIFIED">>), Str(<<"DENIED">>), Str(<<"WITHDRAWN">>)}
                             /\ ChangeOf(x.st) > 0}
        IN  /\ result["summary"].total_applications = SumOfCounts(all)
            /\ result["summary"].pending_applications = SumOfCounts(pending)
            /\ result["summary"].changes_today = SumOfChanges(all)
            /\ result["summary"].completed_today = SumOfChanges(completed)

\* CERTIFIED 100/+5 and ANALYST REVIEW 50/0 summed to 150, 50, 5 and 5
C11_Witness ==
    /\ program = "scraper" /\ pc = "returned"
    /\ "summary" \in DOMAIN result
    /\ result["summary"].total_applications = 150
    /\ result["summary"].pending_applications = 50
    /\ result["summary"].changes_today = 5
    /\ result["summary"].completed_today = 5

\* C12: in every summary pending_percentage lies in [0, 100], is
\* pending_applications / total_applications * 100 rounded to two decimals
\* when total_applications > 0, and is 0 when total_applications = 0; a zero
\* total is no failure.  The percentage is kept in hundredths.
C12_PendingPercentage ==
    (program = "scraper" /\ "summary" \in DOMAIN result) =>
        LET pp == result["summary"].pending_percentage
            pending == result["summary"].pending_applications
            total == result["summary"].total_applications
            diff == pp * total - pending * 10000
        IN  /\ pp \in 0..10000
            /\ total > 0 => (2 * diff <= total /\ 2 * (0 - diff) <= total)
            /\ total = 0 => pp = 0
            /\ exc # "ZeroDivisionError"

\* a summary over statuses whose counts are all zero
C12_Witness ==
    /\ program = "scraper" /\ pc = "returned"
    /\ "summary" \in DOMAIN result
    /\ result["summary"].total_applications = 0
    /\ result["summary"].pending_percentage = 0
    /\ AllStatuses(result["submissionMonths"]) # <<>>

(***************************************************************************)
(* Properties of the date normalizer and of the persistence adapter        *)
(***************************************************************************)
DayNames == {"Mon", "Tue", "Wed", "Thu", "Fri", "Sat", "Sun"}

\* Mon/DD/YY of a calendar date with a recognised month, then optionally the
\* marker " (today)", then optionally a day name
WellFormedLabel(l) ==
    /\ Len(l) >= 5 /\ l[2] = "/" /\ l[4] = "/"
    /\ l[1] \in DOMAIN month_num_map
    /\ IsDigits(l[3]) /\ Len(l[3]) = 2
    /\ IsDigits(l[5]) /\ Len(l[5]) = 2
    /\ ValidDate(2000 + NumVal[l[5]], month_num_map[l[1]], NumVal[l[3]])
    /\ \E t \in {<<>>, <<TODAY>>}, d \in {<<>>} \cup {<<" ", n>> : n \in DayNames} :
          SubSeq(l, 6, Len(l)) = t \o d

\* the calendar date 20YY-MM-DD a well-formed label names
LabelDate(l) == Date(2000 + NumVal[l[5]], month_num_map[l[1]], NumVal[l[3]])

\* weekdays of the calendar, for the dates of the pages
Calendar ==
    (Date(2025, 2, 24) :> "Monday") @@ (Date(2025, 3, 8) :> "Saturday")
    @@ (Date(2025, 3, 24) :> "Monday") @@ (Date(2025, 3, 25) :> "Tuesday")

\* extract_perm_data has returned to the invocation
Extracted == program = "scraper" /\ pc \in {"returned", "output", "finish", "exited"}
\* save_to_postgres has returned to the invocation
Saved == program = "scraper" /\ pc \in {"output", "finish", "exited"} /\ config.save

DaysOf(res) == IF "dailyProgress" \in DOMAIN res THEN res["dailyProgress"] ELSE <<>>

\* C13: every date label Mon/DD/YY with an optional " (today)" marker and an
\* optional day name, of a recognised month, is normalised to the calendar date
\* 20YY-MM-DD: the todayDate taken from the entry marked (today) is that ISO
\* date, and the daily_progress row built from the label has that date and its
\* weekday ("Mar/08/25 Sat" gives 2025-03-08, Saturday).
C13_LabelsNormalised ==
    LET days == DaysOf(result)
        marked == {i \in 1..Len(days) : Contains(days[i].date, TODAY)}
    IN  /\ (Extracted /\ Cardinality(marked) = 1) =>
               \A i \in marked :
                   WellFormedLabel(days[i].date) =>
                       /\ "todayDate" \in DOMAIN result
                       /\ result["todayDate"].kind = "date"
                       /\ result["todayDate"].year = <<"20", days[i].date[5]>>
                       /\ result["todayDate"].month = LabelDate(days[i].date).month
                       /\ result["todayDate"].day = LabelDate(days[i].date).day
        /\ (Saved /\ save_result = "True") =>
               \A i \in 1..Len(days) :
                   WellFormedLabel(days[i].date) =>
                       \E k \in 1..Len(db.daily_progress) :
                           /\ db.daily_progress[k].date = LabelDate(days[i].date)
                           /\ db.daily_progress[k].day_of_week = Calendar[LabelDate(days[i].date)]

TwoDigits(n) == IF n < 10 THEN "0" \o ToString(n) ELSE ToString(n)

month_abbr == <<"Jan", "Feb", "Mar", "Apr", "May", "Jun", "Jul", "Aug", "Sep", "Oct", "Nov", "Dec">>

\* a calendar date written back as Mon/DD/YY
FormatLabel(date) ==
    <<month_abbr[date.month], "/", TwoDigits(date.day), "/", TwoDigits(date.year % 100)>>

\* C14: round trip: for every date label of the recovered daily series,
\* normalising the label to a calendar date and writing that date back as
\* Mon/DD/YY gives the Mon/DD/YY part of the label, whatever marker and day
\* name follow it; the row saved for the label holds that date.
C14_LabelRoundTrip ==
    LET days == DaysOf(result)
    IN  program = "scraper" =>
            \A i \in 1..Len(days) :
                WellFormedLabel(days[i].date) =>
                    /\ ParseDailyDate(days[i].date).ok
                    /\ FormatLabel(ParseDailyDate(days[i].date).date) = SubSeq(days[i].date, 1, 5)
                    /\ (Saved /\ save_result = "True") =>
                           \E k \in 1..Len(db.daily_progress) :
                               FormatLabel(db.daily_progress[k].date) = SubSeq(days[i].date, 1, 5)

C14_Witness ==
    /\ Saved /\ save_result = "True"
    /\ Len(DaysOf(result)) = 2
    /\ DaysOf(result)[1].date = <<"Mar", "/", "08", "/", "25", " ", "Sat">>
    /\ \E k \in 1..Len(db.daily_progress) : db.daily_progress[k].date = Date(2025, 3, 8)

\* the date parameter under which the rows keyed by record date are written
RowsUnder(rows, date) == {k \in 1..Len(rows) : rows[k].record_date = date}

\* C15: when no daily entry is marked as today (the result has no todayDate)
\* and the daily series is not empty, save_to_postgres writes summary_stats and
\* processing_times under the calendar date of the last daily entry.
C15_RecordDateOfLastEntry ==
    LET days == DaysOf(result)
        last == days[Len(days)].date
    IN  (/\ Saved /\ save_result = "True"
         /\ days # <<>>
         /\ "todayDate" \in DOMAIN result => result["todayDate"].kind = "none"
         /\ WellFormedLabel(last))
        => /\ SqlDate(record_date) = [kind |-> "date", date |-> LabelDate(last)]
           /\ "summary" \in DOMAIN result =>
                  \E k \in RowsUnder(db.summary_stats, LabelDate(last)) :
                      db.summary_stats[k] = [record_date |-> LabelDate(last)] @@ result["summary"]
           /\ "processingTimes" \in DOMAIN result =>
                  \E k \in RowsUnder(db.processing_times, LabelDate(last)) :
                      /\ db.processing_times[k].percentile_30 = result["processingTimes"]["30_percentile"]
                      /\ db.processing_times[k].percentile_50 = result["processingTimes"]["50_percentile"]
                      /\ db.processing_times[k].percentile_80 = result["processingTimes"]["80_percentile"]

C15_Witness ==
    /\ Saved /\ save_result = "True"
    /\ Len(DaysOf(result)) = 2
    /\ result["todayDate"].kind = "none"
    /\ LabelDate(DaysOf(result)[1].date) = Date(2025, 3, 8)
    /\ SqlDate(record_date).date = Date(2025, 3, 24)
    /\ "summary" \in DOMAIN result /\ "processingTimes" \in DOMAIN result

\* no two rows of the table have the same natural key
UniqueKeys(table) ==
    \A i, j \in 1..Len(db[table]) :
        KeyOf(table, db[table][i]) = KeyOf(table, db[table][j]) => i = j

ScraperTables == {"daily_progress", "monthly_status", "summary_stats", "processing_times"}

\* C16: idempotence: save_to_postgres called twice with the same extraction
\* result leaves daily_progress, monthly_status, summary_stats and
\* processing_times as one call left them: the same natural keys with the same
\* values, and no duplicate rows.
C16_SaveIdempotent ==
    (Saved /\ save_result = "True" /\ prev.repeat) =>
        /\ db = prev.db
        /\ \A t \in ScraperTables : UniqueKeys(t)

C16_Witness ==
    /\ Saved /\ save_result = "True" /\ prev.repeat
    /\ \A t \in ScraperTables : db[t] # <<>>

AllTables == ScraperTables \cup {"historical_processing_times"}

\* C17: after any sequence of scraper saves, document transforms and
\* historical imports, every table has at most one row per natural key
\* (daily_progress by date, monthly_status by month, year and status,
\* summary_stats, processing_times and historical_processing_times by record
\* date), and that row has the values of the last write under the key.
C17_OneRowPerKeyLastWriteWins ==
    \A t \in AllTables :
        /\ UniqueKeys(t)
        /\ \A i \in 1..Len(db[t]) :
              /\ KeyOf(t, db[t][i]) \in DOMAIN last_write[t]
              /\ db[t][i] = last_write[t][KeyOf(t, db[t][i])]

\* C18: when a statement of the batch fails inside save_to_postgres, the
\* transaction is rolled back and the function returns False: no row of the
\* batch is in the tables, which are as they were before the call.
C18_FailedBatchRolledBack ==
    (Saved /\ prev.failure = "execute") => (save_result = "False" /\ db = prev.db)

C18_Witness ==
    /\ Saved /\ prev.failure = "execute" /\ save_result = "False"
    /\ Len(DailyRecords(DaysOf(result))) = 2
    /\ "summary" \in DOMAIN result
    /\ db.monthly_status # <<>>

\* C19: when persistence fails in an invocation with an output file, the
\* extracted result is still written to the file, in URL mode and in file mode.
C19_OutputWrittenAfterFailedSave ==
    (/\ program = "scraper" /\ pc \in {"finish", "exited"}
     /\ config.save /\ config.output /\ save_result = "False" /\ ~output_error)
    => output_file = [written |-> TRUE, data |-> result]

C19_Witness ==
    /\ program = "scraper" /\ pc = "exited" /\ config = Config("file", TRUE, TRUE)
    /\ save_result = "False" /\ prev.failure = "execute"
    /\ output_file.written /\ "summary" \in DOMAIN output_file.data

\* C20: an invocation ends with exit code 1 when no input source is given,
\* when the fetch retries are exhausted and when persistence failed, and with
\* exit code 0 otherwise.
C20_ExitCode ==
    (program = "scraper" /\ pc = "exited") =>
        (exit_code = 1 <=> (config.mode = "none" \/ exc = "RequestException" \/ save_result = "False"))

(***************************************************************************)
(* Properties of fetch_html_from_url                                       *)
(***************************************************************************)
\* the requests of a call, in order
Requests(events) == SelectSeq(events, LAMBDA e : e.call = "get")

\* C21: fetch_html_from_url issues at most retry_count requests; it returns
\* the text of the first attempt that succeeds and issues no request after
\* it; when all retry_count attempts fail the failure is raised.  For every
\* retry_count the call ends by returning the text or by raising.
C21_FetchReturnsOrRaises ==
    fetch.ret # "none" =>
        LET gets == Requests(fetch.events)
        IN  /\ Len(gets) <= fetch.retry_count
            /\ fetch.ret \in {"text", "raised"}
            /\ fetch.ret = "text" =>
                  /\ fetch.events # <<>>
                  /\ fetch.events[Len(fetch.events)] = Request("ok")
                  /\ \A i \in 1..(Len(gets) - 1) : gets[i].met # "ok"
            /\ (\A i \in 1..fetch.retry_count : fetch.responses[i] # "ok") => fetch.ret = "raised"

\* C22: a response with an HTTP 4xx or 5xx status is not retried: after the
\* status check fails the error reaches the caller with no further request
\* and no sleep.
C22_HttpStatusNotRetried ==
    fetch.ret # "none" =>
        \A i \in 1..Len(fetch.events) :
            fetch.events[i] \in {Request("HTTP404"), Request("HTTP503")} =>
                (i = Len(fetch.events) /\ fetch.ret = "raised")

(***************************************************************************)
(* Properties of run_scraper and of the command line                       *)
(***************************************************************************)
\* how often a call occurs among the calls, and where it occurs first
Count(cs, c) == Cardinality({i \in 1..Len(cs) : cs[i] = c})
Pos(cs, c) == IF Count(cs, c) = 0 THEN 0 ELSE CHOOSE i \in 1..Len(cs) : cs[i] = c /\ \A j \in 1..(i - 1) : cs[j] # c

\* c occurs before d when both occur
InOrder(cs, c, d) == (Count(cs, c) > 0 /\ Count(cs, d) > 0) => Pos(cs, c) < Pos(cs, d)

\* run_scraper has been called, by main in URL mode or on its own
InRunScraper == program = "scraper" /\ config.mode \in {"url", "nourl"}

FetchRaised == exc \in {"RequestException", "Exception"}

\* C23 as stated: each invocation of run_scraper performs exactly one fetch
\* call, then exactly one extraction, then at most one persistence call, in
\* that order, and writes the output file only after the persistence attempt.
C23_OneFetchOneExtraction ==
    (InRunScraper /\ pc = "exited") =>
        /\ Count(calls, "fetch") = 1
        /\ Count(calls, "extract") = 1
        /\ Count(calls, "save") <= 1
        /\ InOrder(calls, "fetch", "extract")
        /\ InOrder(calls, "extract", "save")
        /\ InOrder(calls, "save", "write")

\* C23 amended: an invocation of run_scraper that has a URL performs exactly
\* one fetch call, first; exactly one extraction follows when the fetch has
\* returned and none when it raised; at most one persistence call follows, and
\* only when the extraction has returned; the output file is written at most
\* once, after the persistence attempt.  An invocation without a URL performs
\* none of these calls.
C23_StagesInOrder ==
    (InRunScraper /\ pc # "fetch") =>
        /\ config.mode = "nourl" => calls = <<>>
        /\ config.mode = "url" =>
              /\ Count(calls, "fetch") = 1 /\ calls[1] = "fetch"
              /\ Count(calls, "extract") = (IF FetchRaised THEN 0 ELSE 1)
              /\ Count(calls, "save") <= 1 /\ Count(calls, "write") <= 1
              /\ InOrder(calls, "fetch", "extract")
              /\ InOrder(calls, "extract", "save")
              /\ InOrder(calls, "save", "write")
              /\ InOrder(calls, "extract", "write")
              \* while the extraction runs, and when it raised, nothing follows it
              /\ pc \in {"locate", "months", "daily", "percentiles", "summary", "today", "returned", "raised"}
                    => (Count(calls, "save") = 0 /\ Count(calls, "write") = 0)
              /\ (pc \in {"finish", "exited"} /\ exc # "none")
                    => (Count(calls, "save") = 0 /\ Count(calls, "write") = 0)
              /\ (pc \in {"output", "finish", "exited"} /\ exc = "none")
                    => Count(calls, "save") = (IF config.save THEN 1 ELSE 0)

C23_Witness ==
    /\ InRunScraper /\ pc = "exited" /\ config = Config("url", TRUE, TRUE)
    /\ calls = <<"fetch", "extract", "save", "write">>
    /\ "summary" \in DOMAIN result

\* C24: run_scraper never propagates an exception: a failure raised by the
\* fetch, the backup, the extraction, the persistence call or the output-file
\* write makes it return False; without url and PERM_URL it returns False
\* without fetching; it returns True only when the pipeline ran to the end.
C24_RunScraperNeverPropagates ==
    (InRunScraper /\ pc \in {"finish", "exited"}) =>
        /\ run_result \in {"True", "False"}
        /\ (exc # "none" \/ output_error) => run_result = "False"
        /\ config.mode = "nourl" => (run_result = "False" /\ calls = <<>>)
        /\ run_result = "True" =>
              /\ exc = "none" /\ ~output_error
              /\ Count(calls, "extract") = 1
              /\ config.save => Count(calls, "save") = 1
              /\ config.output => Count(calls, "write") = 1

C24_Witness ==
    /\ InRunScraper /\ pc = "exited" /\ config.mode = "url"
    /\ exc = "UnboundLocalError" /\ run_result = "False"
    /\ calls = <<"fetch", "extract">>

\* C25: an invocation that gives both a file and a URL is rejected and
\* processes neither; an accepted invocation processes exactly one source.
C25_InputSelectionExclusive ==
    program = "scraper" =>
        /\ config.mode = "both" =>
              /\ Count(calls, "read") = 0 /\ Count(calls, "fetch") = 0
              /\ pc = "exited" => exit_code = 1
        /\ ~(Count(calls, "read") > 0 /\ Count(calls, "fetch") > 0)

\* C26: whenever save_to_postgres obtained a connection, it closes it exactly
\* once before it returns, on success, on a table-initialization failure and
\* on an SQL error alike; it returns True only after the data transaction was
\* committed, and False when the connection, the initialization or a
\* statement fails, with no statement executed when the connection fails.
C26_ConnectionClosedOnce ==
    Saved =>
        /\ conn # <<>> =>
              /\ conn[1] = "connect"
              /\ Count(conn, "close") = 1 /\ conn[Len(conn)] = "close"
        /\ save_result = "True" =>
              /\ Count(conn, "commit") = 1 /\ Count(conn, "rollback") = 0
              /\ InOrder(conn, "commit", "close")
        /\ prev.failure \in {"connect", "initialize", "execute"} => save_result = "False"
        /\ prev.failure = "connect" => conn = <<>>
        /\ prev.failure = "initialize" => Count(conn, "execute") = 0

C26_Witness ==
    /\ Saved /\ prev.failure = "execute" /\ save_result = "False"
    /\ Count(conn, "execute") = 2 /\ Count(conn, "rollback") = 1
    /\ conn[Len(conn)] = "close"

\* Mon/DD/YY whose month is none of the twelve abbreviations, then optionally
\* the marker " (today)"
UnknownMonthLabel(l) ==
    /\ Len(l) >= 5 /\ l[2] = "/" /\ l[4] = "/"
    /\ l[1] \notin DOMAIN month_num_map
    /\ IsDigits(l[3]) /\ Len(l[3]) = 2
    /\ IsDigits(l[5]) /\ Len(l[5]) = 2
    /\ SubSeq(l, 6, Len(l)) \in {<<>>, <<TODAY>>}

\* 20YY-01-DD of such a label
JanuaryOf(l) ==
    [kind |-> "date", text |-> <<>>, year |-> <<"20", l[5]>>, month |-> 1, day |-> NumVal[l[3]]]

\* extract_perm_data raised after the daily series was recovered
ExtractionRaised == program = "scraper" /\ pc = "raised" /\ "todayDate" \notin DOMAIN result

\* lines 636-650 on a last label with an unknown month, none being marked
DerivedJanuary ==
    LET days == DaysOf(result)
    IN  (/\ Saved /\ save_result = "True" /\ days # <<>>
         /\ result["todayDate"].kind = "none"
         /\ UnknownMonthLabel(days[Len(days)].date))
        => record_date = JanuaryOf(days[Len(days)].date)

PlainLabel(l) == WellFormedLabel(l) /\ SubSeq(l, 6, Len(l)) \in {<<>>, <<TODAY>>}

\* the three derivations from the labels whose two-digit year is in years
YearsExpanded(years) ==
    LET days == DaysOf(result)
        marked == {i \in 1..Len(days) : Contains(days[i].date, TODAY)}
        plain == {i \in 1..Len(days) : PlainLabel(days[i].date) /\ NumVal[days[i].date[5]] \in years}
    IN  /\ Extracted =>
               \A i \in plain \cap marked :
                   (\A j \in marked : j <= i) =>
                       SqlDate(result["todayDate"]) = [kind |-> "date", date |-> LabelDate(days[i].date)]
        /\ (Saved /\ save_result = "True") =>
               /\ (marked = {} /\ Len(days) \in plain) =>
                      SqlDate(record_date) = [kind |-> "date", date |-> LabelDate(days[Len(days)].date)]
               /\ \A i \in plain :
                      \E k \in 1..Len(db.daily_progress) :
                          db.daily_progress[k].date = LabelDate(days[i].date)

\* C28: for every two-digit year YY in 00..99 of a date label Mon/DD/YY, every
\* date derived from the label has year 2000 + YY, and the derivations agree:
\* the todayDate of the result, the record date derived in save_to_postgres,
\* and the date of the daily_progress row built from the label.
C28_TwoDigitYearExpanded == YearsExpanded(0..99)

\* the balanced array after the key is the span the monthly stage extracted,
\* for the fragments whose key sits at one of the given positions
ArrayAfterKeyExtracted(positions) ==
    (program = "scraper" /\ pc = "daily" /\ FindTok(target_block, MARKER, 1) \in positions) =>
        LET a == FindTok(target_block, "[", FindTok(target_block, MARKER, 1))
        IN  \A e \in (a + 1)..Len(target_block) :
                (/\ a > 0
                 /\ Balanced(SubSeq(target_block, a, e))
                 /\ Offset(target_block, e) - Offset(target_block, a) < MonthWindow)
                => /\ raw_array = [found |-> TRUE, span |-> SubSeq(target_block, a, e)]
                   /\ JsonLoads(Unescape(SubSeq(target_block, a, e))).ok =>
                          "submissionMonths" \in DOMAIN result

\* C29: for every target fragment in which the key submissionMonths occurs
\* and a "[" occurs after it, the bracket scan starts at the first "[" after
\* the key wherever the key sits, also at the very start of the fragment, so
\* a balanced array following the key is found and extracted.
C29_ArrayFoundWhereverKeySits == ArrayAfterKeyExtracted(1..Len(target_block))

\* extract_perm_data found a target fragment and has just returned
ReturnedWithTarget ==
    program = "scraper" /\ pc = "returned" /\ TargetIndex(ScriptBlocks(html)) # 0

\* todayDate as the labels of the daily series determine it, for the results
\* whose last label is one of the given kinds
TodayFromLabels(bare_allowed) ==
    LET days == DaysOf(result)
        marked == {i \in 1..Len(days) : Contains(days[i].date, TODAY)}
    IN  (/\ ReturnedWithTarget
         /\ (days # <<>> /\ Contains(days[Len(days)].date, TodayBare)) => bare_allowed)
        => /\ "todayDate" \in DOMAIN result
           /\ result["todayDate"].kind # "text"
           /\ marked = {} => result["todayDate"] = NoDate
           /\ \A i \in marked :
                  ((\A j \in marked : j <= i) /\ PlainLabel(days[i].date)) =>
                      SqlDate(result["todayDate"]) = [kind |-> "date", date |-> LabelDate(days[i].date)]

\* C30: whenever extract_perm_data finds a target fragment and returns, the
\* result has the key todayDate and only the labels of the daily series
\* determine it: the date of the entry marked "(today)" (the last one if there
\* are several; here for the labels Mon/DD/YY without a day name), None when
\* no entry is marked; a todayDate field of the payload never survives.
C30_TodayDateFromLabelsOnly == TodayFromLabels(TRUE)

====
